---- MODULE Spec2Model ----
(***************************************************************************)
(* Model of the classification, streaming and page-allocation engine of    *)
(* ORF.py (src/ORF.py).                                                    *)
(*                                                                         *)
(* Strings are modelled structurally:                                      *)
(*   - the name of a block is a sequence of tokens (words and digit        *)
(*     runs), on which kind_of looks for the category words;               *)
(*   - a reading cell is a string; Chars gives its characters, on which    *)
(*     the regular expressions and float() are evaluated;                  *)
(*   - a sheet title is a record [base, mu, num]: the title made of the    *)
(*     column-steel base name, the mu sign and the suffix (3) is           *)
(*     [base |-> "ColumnSteel", mu |-> TRUE, num |-> 3]; num = 0 is a      *)
(*     title without the (n) suffix;                                       *)
(*   - a rule text, a keyword and the name of an entity given to           *)
(*     assign_by_buckets are sequences of characters, one string per       *)
(*     character, on which strip, NFKC, lower and the regular expressions  *)
(*     are evaluated;                                                      *)
(*   - non-ASCII words and characters of the source are written in ASCII:  *)
(*     "zh_" and the pinyin for a Chinese one ("zh_zhu" is the word for    *)
(*     column, "zh_ceng" the character for floor), "fw_" for a full-width  *)
(*     form ("fw_star" is the full-width asterisk).                        *)
(* Python's None is the record None below, Some(v) a present value.        *)
(***************************************************************************)
EXTENDS Integers, Sequences, FiniteSets, TLC

VARIABLES
    wb,                   \* workbook: sheet title -> sheet content (5 block slots)
    pages_slice,          \* fill_blocks_to_pages: argument pages_slice
    blocks,               \* fill_blocks_to_pages: argument blocks
    page_idx,             \* fill_blocks_to_pages: local page_idx
    pos,                  \* fill_blocks_to_pages: local pos
    bi,                   \* fill_blocks_to_pages: local i (index of the next block, 0-based)
    fill_pc,              \* position inside fill_blocks_to_pages
    warned,               \* the capacity warning has been written to stdout
    written,              \* history: indices (0-based) of the blocks passed to write_block
    alloc_pc,             \* position inside ensure_pages_slices_for_cat_muaware
    alloc_cat,            \* ensure_pages_slices_for_cat_muaware: argument cat
    blocks_by_bucket,     \* argument blocks_by_bucket, one entry per bucket read so far
    n_buckets,            \* len(blocks_by_bucket)
    total_all_pages,      \* ensure_pages_slices_for_cat_muaware: local total_all_pages
    normal_pages_created, \* ensure_pages_slices_for_cat_muaware: local normal_pages_created
    pages_slices,         \* ensure_pages_slices_for_cat_muaware: result pages_slices
    blocks_slices,        \* ensure_pages_slices_for_cat_muaware: result blocks_slices
    have0,                \* history: number of normal pages of alloc_cat before the call
    dist_pc,              \* "idle", or "done" after a call of _distribute_by_dates
    dist_items,           \* _distribute_by_dates: argument items
    date_entries,         \* _distribute_by_dates: argument date_entries
    dist_res,             \* _distribute_by_dates: result res
    rule_pc,              \* "idle", "parsed" after parse_rule, "normalized" after _normalize_simple_rule
    rule_src,             \* the tokens the rule text was written from
    rule_text,            \* the rule text, a sequence of characters
    rule_data,            \* _normalize_simple_rule: argument rule_data
    rule,                 \* the rule returned
    asg_pc,               \* "idle", "done" after assign_by_buckets, "raised" after a ValueError
    support_bucket_strategy, \* global: Bracing strategy, or NoStrategy
    net_bucket_strategy,  \* global: GridFrame strategy, or NoStrategy
    cat_groups,           \* assign_by_buckets: argument cat_groups
    buckets,              \* assign_by_buckets: argument buckets
    later_priority,       \* assign_by_buckets: argument later_priority
    cat_byb,              \* assign_by_buckets: result cat_byb
    remain_by_cat,        \* assign_by_buckets: result remain_by_cat
    run_pc,               \* position inside a run: "idle", "assign", "alloc", "fill", "done", "raised"
    run_entry,            \* the entry point of the run, "none" before it
    provider,             \* the Mode1ConfigProvider of the run
    grouped,              \* the groups of the document, by category
    prev_support,         \* export_mode1_noninteractive: local prev_support
    prev_net,             \* export_mode1_noninteractive: local prev_net
    blocks_by_cat_bucket, \* blocks of every category and bucket
    pages_slices_by_cat,  \* page slices of every category, one per bucket
    blocks_slices_by_cat, \* block slices of every category, one per bucket
    run_i,                \* index of the category being paged, then of the bucket being written
    target,               \* the pages of the run in output order
    bld_pc,               \* "idle", "built" after expand_blocks, "split" after split_mu_blocks
    bld_groups,           \* expand_blocks: argument groups
    bld_blocks,           \* expand_blocks: result blocks
    bld_tags,             \* split_mu_blocks: the value of _is_mu_block for the blocks seen so far
    seg_pc,               \* "idle", or "done" after a call of _segment_blocks_by_floor
    seg_input,            \* _segment_blocks_by_floor: argument blocks
    seg_breaks,           \* _segment_blocks_by_floor: argument breaks
    seg_buckets,          \* _segment_blocks_by_floor: result buckets
    leftover_by_cat,      \* mode4_run: the groups without a plan, by category
    run_error             \* the exception a run has raised, NoError before

fillVars == <<pages_slice, blocks, page_idx, pos, bi, fill_pc, warned, written>>

allocVars == <<alloc_pc, alloc_cat, blocks_by_bucket, n_buckets, total_all_pages,
               normal_pages_created, pages_slices, blocks_slices, have0>>

distVars == <<dist_pc, dist_items, date_entries, dist_res>>

ruleVars == <<rule_pc, rule_src, rule_text, rule_data, rule>>

assignVars ==
    <<asg_pc, support_bucket_strategy, net_bucket_strategy, cat_groups, buckets,
      later_priority, cat_byb, remain_by_cat>>

runVars ==
    <<run_pc, run_entry, provider, grouped, prev_support, prev_net, blocks_by_cat_bucket,
      pages_slices_by_cat, blocks_slices_by_cat, run_i, target>>

buildVars == <<bld_pc, bld_groups, bld_blocks, bld_tags>>

segVars == <<seg_pc, seg_input, seg_breaks, seg_buckets>>

planVars == <<leftover_by_cat, run_error>>

vars == <<wb, fillVars, allocVars, distVars, ruleVars, assignVars, runVars, buildVars, segVars, planVars>>

\* the variables of the subsystems other than the write pass
notFill == <<allocVars, distVars, ruleVars, assignVars, runVars, buildVars, segVars, planVars>>

\* the variables of the subsystems other than the page allocator
notAlloc == <<fillVars, distVars, ruleVars, assignVars, runVars, buildVars, segVars, planVars>>

\* the variables of the subsystems other than the date distribution
notDist == <<wb, fillVars, allocVars, ruleVars, assignVars, runVars, buildVars, segVars, planVars>>

\* the variables of the subsystems other than the rule parser
notRule == <<wb, fillVars, allocVars, distVars, assignVars, runVars, buildVars, segVars, planVars>>

\* the variables of the subsystems other than the bucket assignment
notAssign == <<wb, fillVars, allocVars, distVars, ruleVars, runVars, buildVars, segVars, planVars>>

\* the variables that the block builder leaves alone
notBuild == <<wb, fillVars, allocVars, distVars, ruleVars, assignVars, runVars, segVars, planVars>>

\* everything but the variables of _segment_blocks_by_floor
notSeg == <<wb, fillVars, allocVars, distVars, ruleVars, assignVars, runVars, buildVars, planVars>>

----------------------------------------------------------------------------
(* Generic helpers *)

None == [some |-> FALSE, v |-> 0]

Some(x) == [some |-> TRUE, v |-> x]

Range(s) == {s[k] : k \in DOMAIN s}

Min(a, b) == IF a <= b THEN a ELSE b

Max(a, b) == IF a >= b THEN a ELSE b

CeilDiv(a, b) == (a + b - 1) \div b

RECURSIVE SeqsUpTo(_, _)
SeqsUpTo(S, n) ==
    IF n = 0 THEN {<<>>}
    ELSE LET prev == SeqsUpTo(S, n - 1)
         IN prev \cup {Append(s, x) : s \in {t \in prev : Len(t) = n - 1}, x \in S}

----------------------------------------------------------------------------
(* Program constants *)

PER_LINE_PER_BLOCK == 5

BLOCKS_PER_SHEET == 5

MU_DIGITS_THRESHOLD == 4

CATEGORY_ORDER == <<"ColumnSteel", "BeamSteel", "Bracing", "GridFrame", "Other">>

STRICT_CROSS_CAT_GUARD == TRUE

JF_VAL == 1000000 - 1

WM_VAL == 1000000

----------------------------------------------------------------------------
(* Component names: sequences of tokens *)

W(s) == [t |-> "w", s |-> s, n |-> 0]

N(n) == [t |-> "n", s |-> "", n |-> n]

\* str.upper() on the words of the vocabulary
Upper(s) ==
    CASE s = "gz" -> "GZ"
      [] s = "gl" -> "GL"
      [] s = "wz" -> "WZ"
      [] s = "xx" -> "XX"
      [] s = "jf" -> "JF"
      [] s = "wm" -> "WM"
      [] s = "a"  -> "A"
      [] s = "f"  -> "F"
      [] OTHER -> s

\* str.lower() on the words of the vocabulary
Lower(s) ==
    CASE s = "GZ" -> "gz"
      [] s = "GL" -> "gl"
      [] s = "WZ" -> "wz"
      [] s = "XX" -> "xx"
      [] s = "WJ" -> "wj"
      [] s = "JF" -> "jf"
      [] s = "WM" -> "wm"
      [] s = "A"  -> "a"
      [] s = "F"  -> "f"
      [] s = "LK" -> "lk"
      [] s = "Lk" -> "lk"
      [] s = "ALL" -> "all"
      [] s = "All" -> "all"
      [] s = "ROOF" -> "roof"
      [] OTHER -> s

IsAscii(s) == s \in {"WJ", "GRID", "SJ", "XX", "SX", "FG", "WZ", "ZC", "GZ", "GL"}

CATEGORY_SYNONYMS_ORDER == <<"GridFrame", "Bracing", "ColumnSteel", "BeamSteel">>

CATEGORY_SYNONYMS(cat) ==
    CASE cat = "GridFrame" -> {"zh_wangjia", "WJ", "GRID", "SJ", "XX", "SX", "FG",
                               "zh_shangxian", "zh_xiaxian", "zh_fugan"}
      [] cat = "Bracing" -> {"zh_zhicheng", "WZ", "ZC", "zh_zhijia", "zh_xiecheng", "zh_chenggan"}
      [] cat = "ColumnSteel" -> {"zh_gangzhu", "zh_zhu", "GZ", "zh_kuangjiazhu", "zh_lizhu"}
      [] cat = "BeamSteel" -> {"zh_gangliang", "zh_liang", "GL", "zh_lianxiliang", "zh_lintiao"}
      [] OTHER -> {}

\* kind_of: first category, in the declared order of the synonym table,
\* one of whose synonyms occurs in the name; ASCII synonyms are compared
\* with the upper-cased name, the others with the name as written.
KindHit(name, cat) ==
    \E k \in DOMAIN name :
        /\ name[k].t = "w"
        /\ \E w \in CATEGORY_SYNONYMS(cat) :
              IF IsAscii(w) THEN Upper(name[k].s) = w ELSE name[k].s = w

kind_of(name) ==
    LET hits == {k \in DOMAIN CATEGORY_SYNONYMS_ORDER :
                    KindHit(name, CATEGORY_SYNONYMS_ORDER[k])}
    IN IF hits = {} THEN "Other"
       ELSE CATEGORY_SYNONYMS_ORDER[CHOOSE k \in hits : \A j \in hits : k <= j]

----------------------------------------------------------------------------
(* Reading cells, rows and blocks *)

Digits == {"0", "1", "2", "3", "4", "5", "6", "7", "8", "9"}

DigitVal(c) ==
    CASE c = "0" -> 0 [] c = "1" -> 1 [] c = "2" -> 2 [] c = "3" -> 3
      [] c = "4" -> 4 [] c = "5" -> 5 [] c = "6" -> 6 [] c = "7" -> 7
      [] c = "8" -> 8 [] c = "9" -> 9 [] OTHER -> 0

Slash == "/"

\* the characters of the cell texts that occur in the model
Chars(v) ==
    CASE v = "/" -> <<"/">>
      [] v = "85" -> <<"8", "5">>
      [] v = "12345" -> <<"1", "2", "3", "4", "5">>
      [] v = "999" -> <<"9", "9", "9">>
      [] v = "1000" -> <<"1", "0", "0", "0">>
      [] v = "0999" -> <<"0", "9", "9", "9">>
      [] v = "999.5" -> <<"9", "9", "9", ".", "5">>
      [] v = "1,234.5" -> <<"1", ",", "2", "3", "4", ".", "5">>
      [] v = "1.2.3" -> <<"1", ".", "2", ".", "3">>
      [] v = "85um" -> <<"8", "5", "u", "m">>
      [] v = "1234um" -> <<"1", "2", "3", "4", "u", "m">>
      [] v = "-1234" -> <<"-", "1", "2", "3", "4">>
      [] OTHER -> <<>>

\* re.fullmatch(r"\d{4,}", s)
IsDigits4(s) == Len(s) >= MU_DIGITS_THRESHOLD /\ \A k \in DOMAIN s : s[k] \in Digits

NumChars == Digits \cup {".", ","}

\* re.fullmatch(r"[\d.,]+", s)
IsNumLike(s) == Len(s) >= 1 /\ \A k \in DOMAIN s : s[k] \in NumChars

\* s.replace(",", "")
NoCommas(s) == SelectSeq(s, LAMBDA c : c # ",")

\* float(s) succeeds on a string of digits and dots iff it holds at most
\* one dot and at least one digit
FloatOk(s) ==
    /\ Cardinality({k \in DOMAIN s : s[k] = "."}) <= 1
    /\ \E k \in DOMAIN s : s[k] \in Digits

\* integer part of float(s), for a string accepted by FloatOk
RECURSIVE IntPart(_, _)
IntPart(s, acc) ==
    IF s = <<>> \/ Head(s) = "." THEN acc
    ELSE IntPart(Tail(s), acc * 10 + DigitVal(Head(s)))

\* one cell of _is_mu_block's inner loop
IsMuCell(v) ==
    IF v = Slash THEN FALSE
    ELSE \E s \in {Chars(v)} :
            \/ IsDigits4(s)
            \/ /\ IsNumLike(s)
               /\ \E w \in {NoCommas(s)} : FloatOk(w) /\ IntPart(w, 0) >= 1000

\* row[:8]
First8(row) == SubSeq(row, 1, Min(8, Len(row)))

_is_mu_block(block) ==
    \E r \in DOMAIN block.data :
        \E cells \in {First8(block.data[r])} :
            \E c \in DOMAIN cells : IsMuCell(cells[c])

----------------------------------------------------------------------------
(* Sheet titles *)

Title(base, mu, num) == [base |-> base, mu |-> mu, num |-> num]

\* _sheet_cat_from_title: strip the (n) suffix and the mu sign, then the first
\* category of CATEGORY_ORDER the rest starts with; None (NoCat) otherwise
NoCat == ""

_sheet_cat_from_title(title) ==
    IF \E k \in DOMAIN CATEGORY_ORDER : CATEGORY_ORDER[k] = title.base
    THEN title.base ELSE NoCat

_is_mu_title(title) == title.mu

----------------------------------------------------------------------------
(* Sheets: five block slots; a slot is untouched, slashed or holds a block *)

EmptyBlock == [name |-> <<>>, data |-> <<>>]

Untouched == [kind |-> "untouched", block |-> EmptyBlock]

Slashed == [kind |-> "slash", block |-> EmptyBlock]

Written(b) == [kind |-> "block", block |-> b]

TemplateSheet == [p \in 0..(BLOCKS_PER_SHEET - 1) |-> Untouched]

\* write_block(ws, anchors, pos, item)
write_block(ws, p, item) == [ws EXCEPT ![p] = Written(item)]

\* slash_block on position used_pos alone
slash_tail_One(ws, used_pos) ==
    [p \in 0..(BLOCKS_PER_SHEET - 1) |-> IF p = used_pos THEN Slashed ELSE ws[p]]

\* slash_tail(ws, anchors, used_pos): slash_block on used_pos..4
slash_tail(ws, used_pos) ==
    [p \in 0..(BLOCKS_PER_SHEET - 1) |-> IF p >= used_pos THEN Slashed ELSE ws[p]]

----------------------------------------------------------------------------
(* fill_blocks_to_pages *)

\* the sheet the loop is looking at: wb[pages_slice[page_idx]]
CurTitle == pages_slice[page_idx + 1]

CurBlock == blocks[bi + 1]

\* block_cat: kind_of((blocks[i].get("name") if blocks[i] else "") or "")
block_cat_of(b) == kind_of(b.name)

\* the guard without the comparison of the stream markers
Mismatch_NoMu(title, b) ==
    LET sheet_cat == _sheet_cat_from_title(title)
        block_cat == block_cat_of(b)
    IN sheet_cat # NoCat /\ block_cat # "" /\ sheet_cat # block_cat

\* mismatch = (sheet_cat and block_cat and sheet_cat != block_cat)
\*            or (sheet_is_mu != block_is_mu)
Mismatch(title, b) ==
    LET sheet_cat == _sheet_cat_from_title(title)
        sheet_is_mu == _is_mu_title(title)
        block_cat == block_cat_of(b)
        block_is_mu == _is_mu_block(b)
    IN \/ (sheet_cat # NoCat /\ block_cat # "" /\ sheet_cat # block_cat)
       \/ sheet_is_mu # block_is_mu

\* entry of fill_blocks_to_pages: the early return on an empty page list,
\* the capacity warning, and the initialisation of the loop variables
FillCall(ps, bs) ==
    /\ fill_pc = "idle"
    /\ pages_slice' = ps
    /\ blocks' = bs
    /\ page_idx' = 0
    /\ pos' = 0
    /\ bi' = 0
    /\ written' = {}
    /\ IF ps = <<>>
       THEN /\ fill_pc' = "done"
            /\ warned' = FALSE
       ELSE /\ fill_pc' = "loop"
            /\ warned' = (Len(bs) > Len(ps) * BLOCKS_PER_SHEET)
    /\ UNCHANGED <<wb, notFill>>

InLoop == fill_pc = "loop" /\ bi < Len(blocks) /\ page_idx < Len(pages_slice)

\* one iteration of the while loop that takes the mismatch branch
FillMismatch ==
    /\ InLoop
    /\ STRICT_CROSS_CAT_GUARD
    /\ Mismatch(CurTitle, CurBlock)
    /\ wb' = IF pos # 0
             THEN [wb EXCEPT ![CurTitle] = slash_tail(wb[CurTitle], pos)]
             ELSE wb
    /\ page_idx' = page_idx + 1
    /\ pos' = 0
    /\ UNCHANGED <<pages_slice, blocks, bi, fill_pc, warned, written, notFill>>

\* an iteration that writes the current block and never turns the page
FillWrite_NoTurn ==
    /\ InLoop
    /\ ~(STRICT_CROSS_CAT_GUARD /\ Mismatch(CurTitle, CurBlock))
    /\ wb' = [wb EXCEPT ![CurTitle] = write_block(wb[CurTitle], pos, CurBlock)]
    /\ written' = written \cup {bi}
    /\ bi' = bi + 1
    /\ page_idx' = page_idx
    /\ pos' = pos + 1
    /\ UNCHANGED <<pages_slice, blocks, fill_pc, warned, notFill>>

\* one iteration of the while loop that writes the current block
FillWrite ==
    /\ InLoop
    /\ ~(STRICT_CROSS_CAT_GUARD /\ Mismatch(CurTitle, CurBlock))
    /\ wb' = [wb EXCEPT ![CurTitle] = write_block(wb[CurTitle], pos, CurBlock)]
    /\ written' = written \cup {bi}
    /\ bi' = bi + 1
    /\ IF pos + 1 = BLOCKS_PER_SHEET
       THEN page_idx' = page_idx + 1 /\ pos' = 0
       ELSE page_idx' = page_idx /\ pos' = pos + 1
    /\ UNCHANGED <<pages_slice, blocks, fill_pc, warned, notFill>>

\* loop exit: slash the tail of the last page when it is partly filled
FillExit ==
    /\ fill_pc = "loop"
    /\ ~(bi < Len(blocks) /\ page_idx < Len(pages_slice))
    /\ wb' = IF page_idx < Len(pages_slice) /\ pos # 0
             THEN [wb EXCEPT ![CurTitle] = slash_tail(wb[CurTitle], pos)]
             ELSE wb
    /\ fill_pc' = "done"
    /\ UNCHANGED <<pages_slice, blocks, page_idx, pos, bi, warned, written, notFill>>

\* no call of ensure_pages_slices_for_cat_muaware has been made
AllocIdle ==
    /\ alloc_pc = "idle"
    /\ alloc_cat = NoCat
    /\ blocks_by_bucket = <<>>
    /\ n_buckets = 0
    /\ total_all_pages = 0
    /\ normal_pages_created = 0
    /\ pages_slices = <<>>
    /\ blocks_slices = <<>>
    /\ have0 = 0

\* no call of _distribute_by_dates has been made
DistIdle ==
    /\ dist_pc = "idle"
    /\ dist_items = <<>>
    /\ date_entries = <<>>
    /\ dist_res = <<>>

\* a rule dictionary {"enabled", "ranges", "explicit_all"}; an absent
\* "explicit_all" key reads as false
Rule(enabled, ranges, explicit_all) ==
    [enabled |-> enabled, ranges |-> ranges, explicit_all |-> explicit_all]

\* rule_data = None
RuleDataNone ==
    [kind |-> "none", enabled |-> "unset", rkind |-> "unset", rstr |-> <<>>,
     rlist |-> <<>>, explicit_all |-> FALSE, has_raw |-> FALSE, raw |-> <<>>,
     has_text |-> FALSE, text |-> <<>>]

\* no rule has been parsed or normalised
RuleIdle ==
    /\ rule_pc = "idle"
    /\ rule_src = [toks |-> <<>>, sep |-> <<" ">>, pad |-> <<>>]
    /\ rule_text = <<>>
    /\ rule_data = RuleDataNone
    /\ rule = Rule(FALSE, <<>>, FALSE)

\* the global strategy None
NoStrategy == "<None>"

\* the module as loaded: no strategy set, assign_by_buckets not called
AssignIdle ==
    /\ asg_pc = "idle"
    /\ support_bucket_strategy = NoStrategy
    /\ net_bucket_strategy = NoStrategy
    /\ cat_groups = <<>>
    /\ buckets = <<>>
    /\ later_priority = TRUE
    /\ cat_byb = <<>>
    /\ remain_by_cat = <<>>

\* the provider of no run
NoProvider ==
    [support_strategy |-> "number", net_strategy |-> "number", later_priority |-> TRUE,
     auto_merge_rest |-> TRUE, buckets |-> <<>>]

\* no run has been started
RunIdle ==
    /\ run_pc = "idle"
    /\ run_entry = "none"
    /\ provider = NoProvider
    /\ grouped = <<>>
    /\ prev_support = NoStrategy
    /\ prev_net = NoStrategy
    /\ blocks_by_cat_bucket = <<>>
    /\ pages_slices_by_cat = <<>>
    /\ blocks_slices_by_cat = <<>>
    /\ run_i = 0
    /\ target = <<>>

BuildIdle == bld_pc = "idle" /\ bld_groups = <<>> /\ bld_blocks = <<>> /\ bld_tags = <<>>

\* an exception: its class, its message and the entities the message names
NoError == [type |-> "", msg |-> "", names |-> {}]

\* no run has looked for a plan or raised
PlanIdle == leftover_by_cat = <<>> /\ run_error = NoError

\* no call of _segment_blocks_by_floor has been made
SegIdle == seg_pc = "idle" /\ seg_input = <<>> /\ seg_breaks = <<>> /\ seg_buckets = <<>>

----------------------------------------------------------------------------
(* Inputs of the write pass *)

MaxFillPages == 2

MaxFillBlocks == 6

\* reading cells
Cell85 == "85"

Cell12345 == "12345"

\* rows of groups_from_your_rows for one measured value (written twice,
\* the other readings padded with "/"), followed by the average
NormalRow == [c \in 1..9 |-> IF c \in {1, 2, 9} THEN Cell85 ELSE Slash]

MuRow == [c \in 1..9 |-> IF c \in {1, 2, 9} THEN Cell12345 ELSE Slash]

PadRow == [c \in 1..9 |-> Slash]

BlockOf(name, row) == [name |-> name, data |-> <<row, PadRow, PadRow, PadRow, PadRow>>]

\* names "GZ1 3F" and "GL2"
NameGZ == <<W("GZ"), N(1), W(" "), N(3), W("F")>>

NameGL == <<W("GL"), N(2)>>

FillBlockPool == {BlockOf(NameGZ, NormalRow), BlockOf(NameGZ, MuRow), BlockOf(NameGL, NormalRow)}

\* sheets of the workbook of the write pass; "Sheet1" names no category
FillTitles == {Title("ColumnSteel", FALSE, 0), Title("ColumnSteel", TRUE, 2),
               Title("BeamSteel", FALSE, 0), Title("Sheet1", FALSE, 0)}

FillPageInputs == SeqsUpTo(FillTitles, MaxFillPages)

\* a run of a blocks x, then b blocks y, then c blocks z
ThreeRuns(x, a, y, b, z, c) ==
    [k \in 1..(a + b + c) |-> IF k <= a THEN x ELSE IF k <= a + b THEN y ELSE z]

\* block lists of the write pass: up to three runs of equal blocks,
\* MaxFillBlocks blocks at most
FillBlockInputs ==
    LET sizes == {abc \in (0..MaxFillBlocks) \X (0..MaxFillBlocks) \X (0..MaxFillBlocks) :
                     abc[1] + abc[2] + abc[3] <= MaxFillBlocks}
    IN {ThreeRuns(xyz[1], abc[1], xyz[2], abc[2], xyz[3], abc[3]) :
           xyz \in FillBlockPool \X FillBlockPool \X FillBlockPool, abc \in sizes}

\* no call of fill_blocks_to_pages has been made
FillIdle ==
    /\ pages_slice = <<>>
    /\ blocks = <<>>
    /\ page_idx = 0
    /\ pos = 0
    /\ bi = 0
    /\ fill_pc = "idle"
    /\ warned = FALSE
    /\ written = {}

InitFill ==
    /\ wb = [t \in FillTitles |-> TemplateSheet]
    /\ FillIdle
    /\ AllocIdle
    /\ DistIdle
    /\ RuleIdle
    /\ AssignIdle
    /\ RunIdle
    /\ BuildIdle
    /\ SegIdle
    /\ PlanIdle

NextFill ==
    \/ (fill_pc = "idle" /\ \E ps \in FillPageInputs, bs \in FillBlockInputs : FillCall(ps, bs))
    \/ FillMismatch
    \/ FillWrite
    \/ FillExit

SpecFill == InitFill /\ [][NextFill]_vars

----------------------------------------------------------------------------
(* Claims on fill_blocks_to_pages *)

BlocksOn(t) == {wb[t][p].block : p \in {q \in DOMAIN wb[t] : wb[t][q].kind = "block"}}

\* C1: after a write pass with the strict guard on, every page whose title
\* names a category holds only blocks of the category and of the stream
\* (normal or amplified) that its title declares.
C1_NoCrossBleed ==
    \A t \in DOMAIN wb :
        _sheet_cat_from_title(t) # NoCat =>
            \A b \in BlocksOn(t) :
                /\ kind_of(b.name) = _sheet_cat_from_title(t)
                /\ _is_mu_block(b) = _is_mu_title(t)

\* C1 witness: a finished pass that met a mismatch (a page was closed early
\* or skipped) and wrote blocks of two different (category, stream) pairs
\* on two category pages.
C1_Witness ==
    /\ fill_pc = "done"
    /\ \E t1, t2 \in DOMAIN wb :
          /\ _sheet_cat_from_title(t1) # NoCat
          /\ _sheet_cat_from_title(t2) # NoCat
          /\ BlocksOn(t1) # {} /\ BlocksOn(t2) # {}
          /\ <<t1.base, t1.mu>> # <<t2.base, t2.mu>>
          /\ \E p \in DOMAIN wb[t1] : wb[t1][p].kind = "slash"

\* C2: when the call returns with an input block that was written to no
\* page, the capacity warning has been emitted.
C2_NoSilentDrop ==
    (fill_pc = "done" /\ \E k \in 0..(Len(blocks) - 1) : k \notin written) => warned

----------------------------------------------------------------------------
(* Page creation: ensure_total_pages, _ensure_mu_pages_shared *)

\* clone_sheet_keep_print(wb, tpl_name, title): copy of the template sheet
clone_sheet_keep_print(w, tpl, title) ==
    [t \in DOMAIN w \cup {title} |-> IF t = title THEN w[tpl] ELSE w[t]]

\* sort key of ensure_total_pages: 0 for the bare name, else the number
PageSortKey(t) == t.num

\* names: sheets named base or base(n), sorted by PageSortKey
RECURSIVE SortByNum(_)
SortByNum(S) ==
    IF S = {} THEN <<>>
    ELSE LET m == CHOOSE t \in S : \A u \in S : PageSortKey(t) <= PageSortKey(u)
         IN <<m>> \o SortByNum(S \ {m})

ExistingPages(w, base) == SortByNum({t \in DOMAIN w : t.base = base /\ ~t.mu})

\* ensure_total_pages raises (KeyError in clone_sheet_keep_print) when it has
\* to clone and the base sheet is missing
ensure_total_pages_raises(w, base, total_needed) ==
    total_needed > Len(ExistingPages(w, base)) /\ Title(base, FALSE, 0) \notin DOMAIN w

\* ensure_total_pages: the returned list of names
ensure_total_pages(w, base, total_needed) ==
    LET names == ExistingPages(w, base)
        have == Len(names)
    IN names \o [k \in 1..Max(0, total_needed - have) |-> Title(base, FALSE, have + k)]

\* ensure_total_pages: the workbook after the call
RECURSIVE CloneAll(_, _, _)
CloneAll(w, tpl, titles) ==
    IF titles = <<>> THEN w
    ELSE CloneAll(clone_sheet_keep_print(w, tpl, Head(titles)), tpl, Tail(titles))

ensure_total_pages_wb(w, base, total_needed) ==
    LET names == ExistingPages(w, base)
        have == Len(names)
    IN CloneAll(w, Title(base, FALSE, 0),
                [k \in 1..Max(0, total_needed - have) |-> Title(base, FALSE, have + k)])

\* _ensure_mu_pages_shared: the page for number idx
MuPageFor(w, base, start_idx, idx) ==
    IF start_idx = 0 /\ Title(base, TRUE, 0) \in DOMAIN w /\ idx = start_idx + 1
    THEN Title(base, TRUE, 0)
    ELSE Title(base, TRUE, idx)

\* _ensure_mu_pages_shared: the returned list of names
_ensure_mu_pages_shared(w, base, start_idx, count) ==
    [k \in 1..count |-> MuPageFor(w, base, start_idx, start_idx + k)]

\* _ensure_mu_pages_shared raises RuntimeError when a page has to be cloned
\* and the mu template is not in the workbook
_ensure_mu_pages_shared_raises(w, base, start_idx, count) ==
    /\ Title(base, TRUE, 0) \notin DOMAIN w
    /\ \E k \in 1..count : MuPageFor(w, base, start_idx, start_idx + k) \notin DOMAIN w

\* _ensure_mu_pages_shared: the workbook after the call (when it does not raise)
_ensure_mu_pages_shared_wb(w, base, start_idx, count) ==
    LET pages == _ensure_mu_pages_shared(w, base, start_idx, count)
        missing == SelectSeq(pages, LAMBDA t : t \notin DOMAIN w)
    IN CloneAll(w, Title(base, TRUE, 0), missing)

\* the floor of count/5 in place of the ceiling
pages_needed_floor(bl) == Len(bl) \div BLOCKS_PER_SHEET

\* math.ceil(len(blocks) / BLOCKS_PER_SHEET) if blocks else 0
pages_needed(bl) == IF bl # <<>> THEN CeilDiv(Len(bl), BLOCKS_PER_SHEET) ELSE 0

----------------------------------------------------------------------------
(* ensure_pages_slices_for_cat_muaware *)

\* [b for b in all_blocks if not _is_mu_block(b)]
NormalBlocks(all_blocks) == SelectSeq(all_blocks, LAMBDA b : ~_is_mu_block(b))

\* no block is taken for amplified
MuBlocks_None(all_blocks) == <<>>

\* [b for b in all_blocks if _is_mu_block(b)]
MuBlocks(all_blocks) == SelectSeq(all_blocks, LAMBDA b : _is_mu_block(b))

\* entry: buckets = sorted(blocks_by_bucket.keys()), counters at 0
AllocCall(cat, nb) ==
    /\ alloc_pc = "idle"
    /\ alloc_pc' = IF nb = 0 THEN "done" ELSE "loop"
    /\ alloc_cat' = cat
    /\ n_buckets' = nb
    /\ blocks_by_bucket' = <<>>
    /\ total_all_pages' = 0
    /\ normal_pages_created' = 0
    /\ pages_slices' = <<>>
    /\ blocks_slices' = <<>>
    /\ have0' = Len(ExistingPages(wb, cat))
    /\ UNCHANGED <<wb, notAlloc>>

\* one iteration of "for i in buckets" over the bucket's block list
\* all_blocks (the dict entry is drawn when the iteration reads it); the
\* last iteration is followed by the return of pages_slices, blocks_slices
AllocBucket(all_blocks) ==
    /\ alloc_pc = "loop"
    /\ Len(pages_slices) < n_buckets
    /\ blocks_by_bucket' = Append(blocks_by_bucket, all_blocks)
    /\ \E normal_blocks \in {NormalBlocks(all_blocks)}, mu_blocks \in {MuBlocks(all_blocks)} :
       \E need_n \in {pages_needed(normal_blocks)}, need_m \in {pages_needed(mu_blocks)} :
       LET
           raises_n == need_n # 0 /\
                         ensure_total_pages_raises(wb, alloc_cat, normal_pages_created + need_n)
           normal_full == ensure_total_pages(wb, alloc_cat, normal_pages_created + need_n)
           wb1 == IF need_n # 0 /\ ~raises_n
                  THEN ensure_total_pages_wb(wb, alloc_cat, normal_pages_created + need_n)
                  ELSE wb
           normal_batch == IF need_n # 0
                           THEN SubSeq(normal_full, normal_pages_created + 1,
                                       Min(Len(normal_full), normal_pages_created + need_n))
                           ELSE <<>>
           start_idx_for_mu == total_all_pages + need_n
           raises_m == need_m # 0 /\
                         _ensure_mu_pages_shared_raises(wb1, alloc_cat, start_idx_for_mu, need_m)
           mu_batch == IF need_m # 0
                       THEN _ensure_mu_pages_shared(wb1, alloc_cat, start_idx_for_mu, need_m)
                       ELSE <<>>
           wb2 == IF need_m # 0
                  THEN _ensure_mu_pages_shared_wb(wb1, alloc_cat, start_idx_for_mu, need_m)
                  ELSE wb1
       IN IF raises_n
          THEN /\ alloc_pc' = "raised"
               /\ UNCHANGED <<wb, total_all_pages, normal_pages_created,
                              pages_slices, blocks_slices>>
          ELSE IF raises_m
          THEN /\ alloc_pc' = "raised"
               /\ wb' = wb1
               /\ normal_pages_created' = normal_pages_created + need_n
               /\ UNCHANGED <<total_all_pages, pages_slices, blocks_slices>>
          ELSE /\ alloc_pc' = IF Len(pages_slices) + 1 = n_buckets THEN "done" ELSE "loop"
               /\ wb' = wb2
               /\ normal_pages_created' = normal_pages_created + need_n
               /\ total_all_pages' = total_all_pages + need_n + need_m
               /\ pages_slices' = Append(pages_slices, normal_batch \o mu_batch)
               /\ blocks_slices' = Append(blocks_slices, normal_blocks \o mu_blocks)
    /\ UNCHANGED <<alloc_cat, n_buckets, have0, notAlloc>>

----------------------------------------------------------------------------
(* Inputs of the allocator *)

MaxAllocBuckets == 2

MaxAllocBlocks == 6

AllocN == BlockOf(NameGZ, NormalRow)

AllocM == BlockOf(NameGZ, MuRow)

\* a run of a blocks x followed by a run of b blocks y
TwoRuns(x, a, y, b) == [k \in 1..(a + b) |-> IF k <= a THEN x ELSE y]

\* block lists of one bucket: a normal blocks followed by b amplified
\* blocks, MaxAllocBlocks blocks at most, and one list in which the
\* amplified block comes first
AllocInputs ==
    LET sizes == {ab \in (0..MaxAllocBlocks) \X (0..MaxAllocBlocks) :
                     ab[1] + ab[2] <= MaxAllocBlocks}
    IN {TwoRuns(AllocN, ab[1], AllocM, ab[2]) : ab \in sizes} \cup {<<AllocM, AllocN>>}

\* the workbook before the call: the category's sheet, possibly a second
\* numbered sheet left in the template, possibly the mu template and a
\* numbered mu sheet
AllocWorkbooks(cat) ==
    {[t \in {Title(cat, FALSE, 0)}
             \cup (IF two THEN {Title(cat, FALSE, 2)} ELSE {})
             \cup (IF tpl THEN {Title(cat, TRUE, 0)} ELSE {})
             \cup (IF mu2 THEN {Title(cat, TRUE, 2)} ELSE {}) |-> TemplateSheet] :
        two \in BOOLEAN, tpl \in BOOLEAN, mu2 \in BOOLEAN}

InitAlloc ==
    /\ wb \in AllocWorkbooks("ColumnSteel")
    /\ FillIdle
    /\ AllocIdle
    /\ DistIdle
    /\ RuleIdle
    /\ AssignIdle
    /\ RunIdle
    /\ BuildIdle
    /\ SegIdle
    /\ PlanIdle

NextAlloc ==
    \/ (alloc_pc = "idle" /\ \E nb \in 0..MaxAllocBuckets : AllocCall("ColumnSteel", nb))
    \/ (alloc_pc = "loop" /\ \E bl \in AllocInputs : AllocBucket(bl))

SpecAlloc == InitAlloc /\ [][NextAlloc]_vars

----------------------------------------------------------------------------
(* Claims on ensure_pages_slices_for_cat_muaware *)

RECURSIVE Flatten(_)
Flatten(ss) == IF ss = <<>> THEN <<>> ELSE Head(ss) \o Flatten(Tail(ss))

\* the page number a title carries: the bare name is page 1
PageNo(t) == IF t.num = 0 THEN 1 ELSE t.num

CountNormal(bl) == Len(SelectSeq(bl, LAMBDA b : ~_is_mu_block(b)))

\* the number of normal blocks of every bucket
RECURSIVE NormalCounts(_)
NormalCounts(bb) ==
    IF bb = <<>> THEN <<>> ELSE <<CountNormal(Head(bb))>> \o NormalCounts(Tail(bb))

Ceil5(x) == (x + 4) \div 5

RECURSIVE SumCeil5(_)
SumCeil5(ns) == IF ns = <<>> THEN 0 ELSE Ceil5(Head(ns)) + SumCeil5(Tail(ns))

\* C3: read bucket by bucket (normal pages, then amplified pages), the pages
\* handed out for one category carry the numbers 1, 2, 3, ... without gap
\* and without repetition.
C3_ContinuousNumbering ==
    LET handed == Flatten(pages_slices)
    IN \A k \in DOMAIN handed : PageNo(handed[k]) = k

\* C4: every bucket gets ceil(n/5) normal pages followed by ceil(m/5)
\* amplified pages of the category (none for an empty sub-list), and the
\* normal pages required in the workbook are the sum of the buckets'
\* normal-page needs.
C4_PagesPerBucket ==
    \A ns \in {NormalCounts(blocks_by_bucket)} :
        /\ \A k \in DOMAIN pages_slices :
              LET n == ns[k]
                  m == Len(blocks_by_bucket[k]) - n
                  ps == pages_slices[k]
              IN /\ Len(ps) = Ceil5(n) + Ceil5(m)
                 /\ \A j \in DOMAIN ps :
                       /\ ps[j].base = alloc_cat
                       /\ ps[j].mu = (j > Ceil5(n))
        /\ alloc_pc \in {"loop", "done"} => normal_pages_created = SumCeil5(ns)
        /\ alloc_pc = "done" => Len(pages_slices) = n_buckets
        /\ alloc_pc # "idle" =>
              Len(ExistingPages(wb, alloc_cat)) = Max(have0, SumCeil5(ns))

\* C4 witness: a finished call in which one bucket needs two normal pages
\* and a later bucket holds amplified blocks only.
C4_Witness ==
    /\ alloc_pc = "done"
    /\ \E k1, k2 \in DOMAIN pages_slices :
          /\ k1 < k2
          /\ CountNormal(blocks_by_bucket[k1]) > BLOCKS_PER_SHEET
          /\ blocks_by_bucket[k2] # <<>>
          /\ CountNormal(blocks_by_bucket[k2]) = 0
          /\ Len(pages_slices[k2]) = 1

----------------------------------------------------------------------------
(* _distribute_by_dates *)

\* a date entry (d, limit); limit is None or Some(integer)
Entry(d, limit) == [date |-> d, limit |-> limit]

\* quota mode whenever every entry carries a limit
IsQuotaMode_AllLimits(entries) == \A k \in DOMAIN entries : entries[k].limit.some

\* "if date_entries[0][1] is not None": quota mode, else even mode
IsQuotaMode(entries) == entries[1].limit.some

\* the last day keeps to its own limit
QuotaTake_LastLimited(limit, i, n, remaining) ==
    IF ~limit.some \/ limit.v <= 0 THEN remaining ELSE Min(limit.v, remaining)

\* quota mode, the take of entry i (0-based) of n when remaining > 0
QuotaTake(limit, i, n, remaining) ==
    IF ~limit.some \/ limit.v <= 0 THEN remaining
    ELSE IF i < n - 1 THEN Min(limit.v, remaining)
    ELSE remaining

\* items[cursor:cursor + take]
Slice(items, cursor, take) ==
    SubSeq(items, Min(cursor, Len(items)) + 1, Min(cursor + take, Len(items)))

\* the quota loop from entry i (0-based) on, with the cursor reached so far
RECURSIVE QuotaLoop(_, _, _, _)
QuotaLoop(items, entries, i, cursor) ==
    IF i >= Len(entries) THEN <<>>
    ELSE LET remaining == Max(0, Len(items) - cursor)
             e == entries[i + 1]
             take == IF remaining <= 0 THEN 0
                     ELSE QuotaTake(e.limit, i, Len(entries), remaining)
         IN <<[date |-> e.date, slice |-> Slice(items, cursor, take)]>>
            \o QuotaLoop(items, entries, i + 1, cursor + take)

\* even mode, the take of entry i (0-based) of days
EvenTake(i, days, per, left) == IF i < days - 1 THEN Min(per, left) ELSE left

\* the even loop from entry i (0-based) on
RECURSIVE EvenLoop(_, _, _, _)
EvenLoop(items, entries, i, cursor) ==
    IF i >= Len(entries) THEN <<>>
    ELSE LET days == Len(entries)
             per == CeilDiv(Len(items), days)
             take == EvenTake(i, days, per, Len(items) - cursor)
         IN <<[date |-> entries[i + 1].date, slice |-> Slice(items, cursor, take)]>>
            \o EvenLoop(items, entries, i + 1, cursor + take)

_distribute_by_dates(items, entries) ==
    IF entries = <<>> THEN <<>>
    ELSE IF IsQuotaMode(entries) THEN QuotaLoop(items, entries, 0, 0)
    ELSE EvenLoop(items, entries, 0, 0)

\* a call with no date entry: the early return of the empty list
DistributeNoDates(items) ==
    /\ dist_pc' = "done"
    /\ dist_items' = items
    /\ date_entries' = <<>>
    /\ dist_res' = _distribute_by_dates(items, <<>>)
    /\ UNCHANGED notDist

\* a call that takes the quota branch
DistributeQuota(items, entries) ==
    /\ entries # <<>> /\ entries[1].limit.some
    /\ dist_pc' = "done"
    /\ dist_items' = items
    /\ date_entries' = entries
    /\ dist_res' = _distribute_by_dates(items, entries)
    /\ UNCHANGED notDist

\* a call that takes the even branch
DistributeEven(items, entries) ==
    /\ entries # <<>> /\ ~entries[1].limit.some
    /\ dist_pc' = "done"
    /\ dist_items' = items
    /\ date_entries' = entries
    /\ dist_res' = _distribute_by_dates(items, entries)
    /\ UNCHANGED notDist

----------------------------------------------------------------------------
(* Inputs of the date distribution *)

MaxItems == 12

MaxDays == 3

\* limits of _norm_entry_list: unset, or an integer (0 and negative included)
LimitPool == {None, Some(0), Some(-1), Some(3), Some(5), Some(20)}

ItemLists == {[k \in 1..n |-> k] : n \in 0..MaxItems}

\* entry lists; the k-th date is written k
EntryLists ==
    {[k \in DOMAIN ls |-> Entry(k, ls[k])] : ls \in SeqsUpTo(LimitPool, MaxDays)}

InitDist ==
    /\ wb = [t \in FillTitles |-> TemplateSheet]
    /\ FillIdle
    /\ AllocIdle
    /\ DistIdle
    /\ RuleIdle
    /\ AssignIdle
    /\ RunIdle
    /\ BuildIdle
    /\ SegIdle
    /\ PlanIdle

NextDist ==
    \/ (dist_pc = "idle" /\ \E items \in ItemLists : DistributeNoDates(items))
    \/ (dist_pc = "idle" /\ \E items \in ItemLists, entries \in EntryLists : DistributeQuota(items, entries))
    \/ (dist_pc = "idle" /\ \E items \in ItemLists, entries \in EntryLists : DistributeEven(items, entries))

SpecDist == InitDist /\ [][NextDist]_vars

----------------------------------------------------------------------------
(* Claims on _distribute_by_dates *)

SliceLens(res) == [k \in DOMAIN res |-> Len(res[k].slice)]

Limits(entries) == [k \in DOMAIN entries |-> entries[k].limit]

\* C5: for a non-empty entry list, in even and in quota mode, the result
\* has one slice per entry, in entry order, and the slices concatenated
\* give back the item list.
C5_Coverage ==
    (dist_pc = "done" /\ date_entries # <<>>) =>
        /\ Len(dist_res) = Len(date_entries)
        /\ \A k \in DOMAIN dist_res : dist_res[k].date = date_entries[k].date
        /\ Flatten([k \in DOMAIN dist_res |-> dist_res[k].slice]) = dist_items

\* C5 witness: a quota call over three dates whose explicit last limit is
\* smaller than what remains for it, and which leaves items to every day.
C5_Witness ==
    /\ dist_pc = "done"
    /\ Len(date_entries) = 3
    /\ \A k \in DOMAIN date_entries : date_entries[k].limit.some /\ date_entries[k].limit.v > 0
    /\ \A k \in DOMAIN dist_res : dist_res[k].slice # <<>>
    /\ Len(dist_res[3].slice) > date_entries[3].limit.v

IsC6Input ==
    /\ dist_pc = "done"
    /\ Len(dist_items) = 12
    /\ Limits(date_entries) = <<Some(5), None, Some(3)>>

\* C6 as stated: 12 items with limits [5, None, 3] give slices of lengths
\* [5, 4, 3].
C6_Original == IsC6Input => SliceLens(dist_res) = <<5, 4, 3>>

\* C6 amended: in quota mode a middle day whose limit is unset takes all
\* that remains; 12 items with limits [5, None, 3] give slices of lengths
\* [5, 7, 0].
C6_UnsetTakesAll == IsC6Input => SliceLens(dist_res) = <<5, 7, 0>>

\* C6 witness: the call with 12 items and limits [5, None, 3] has returned.
C6_Witness == IsC6Input /\ Len(dist_res) = 3

----------------------------------------------------------------------------
(* Rule texts: sequences of characters *)

\* str.isspace(): the blank and the ideographic space
SpaceChars == {" ", "fw_space"}

\* unicodedata.normalize("NFKC", c) on the characters of the vocabulary
NFKC(c) ==
    CASE c = "fw_space" -> " "
      [] c = "fw_star" -> "*"
      [] c = "fw_comma" -> ","
      [] c = "fw_semi" -> ";"
      [] c = "fw_hyphen" -> "-"
      [] c = "fw_tilde" -> "~"
      [] c = "fw_1" -> "1"
      [] c = "fw_2" -> "2"
      [] c = "fw_l" -> "l"
      [] c = "fw_k" -> "k"
      [] c = "fw_L" -> "L"
      [] c = "fw_K" -> "K"
      [] OTHER -> c

\* str.lower() and str.casefold(), character by character
LowerCh(c) ==
    CASE c = "A" -> "a" [] c = "B" -> "b" [] c = "C" -> "c" [] c = "D" -> "d"
      [] c = "E" -> "e" [] c = "F" -> "f" [] c = "G" -> "g" [] c = "H" -> "h"
      [] c = "I" -> "i" [] c = "J" -> "j" [] c = "K" -> "k" [] c = "L" -> "l"
      [] c = "M" -> "m" [] c = "N" -> "n" [] c = "O" -> "o" [] c = "P" -> "p"
      [] c = "Q" -> "q" [] c = "R" -> "r" [] c = "S" -> "s" [] c = "T" -> "t"
      [] c = "U" -> "u" [] c = "V" -> "v" [] c = "W" -> "w" [] c = "X" -> "x"
      [] c = "Y" -> "y" [] c = "Z" -> "z"
      [] OTHER -> c

\* str.upper(), character by character
UpperCh(c) ==
    CASE c = "a" -> "A" [] c = "b" -> "B" [] c = "c" -> "C" [] c = "d" -> "D"
      [] c = "e" -> "E" [] c = "f" -> "F" [] c = "g" -> "G" [] c = "h" -> "H"
      [] c = "i" -> "I" [] c = "j" -> "J" [] c = "k" -> "K" [] c = "l" -> "L"
      [] c = "m" -> "M" [] c = "n" -> "N" [] c = "o" -> "O" [] c = "p" -> "P"
      [] c = "q" -> "Q" [] c = "r" -> "R" [] c = "s" -> "S" [] c = "t" -> "T"
      [] c = "u" -> "U" [] c = "v" -> "V" [] c = "w" -> "W" [] c = "x" -> "X"
      [] c = "y" -> "Y" [] c = "z" -> "Z"
      [] OTHER -> c

\* the characters re.sub(r"[...]", "-", text) rewrites
HyphenLike ==
    {"fw_hyphen", "em_dash", "en_dash", "minus", "~", "fw_tilde", "wave_dash",
     "zh_zhi", "zh_dao"}

\* the characters re.split(r"[,...\s]+", text) splits on
SplitChars == {",", "fw_comma", "zh_dun", ";", "fw_semi"} \cup SpaceChars

NFKCText(t) == [k \in DOMAIN t |-> NFKC(t[k])]

LowerText(t) == [k \in DOMAIN t |-> LowerCh(t[k])]

UnifyHyphens(t) == [k \in DOMAIN t |-> IF t[k] \in HyphenLike THEN "-" ELSE t[k]]

RECURSIVE LStrip(_)
LStrip(t) == IF t # <<>> /\ Head(t) \in SpaceChars THEN LStrip(Tail(t)) ELSE t

RECURSIVE RStrip(_)
RStrip(t) ==
    IF t # <<>> /\ t[Len(t)] \in SpaceChars THEN RStrip(SubSeq(t, 1, Len(t) - 1)) ELSE t

\* str.strip()
Strip(t) == RStrip(LStrip(t))

\* the non-empty pieces of re.split: cur is the piece being read
RECURSIVE SplitTokens(_, _)
SplitTokens(t, cur) ==
    IF t = <<>> THEN (IF cur = <<>> THEN <<>> ELSE <<cur>>)
    ELSE IF Head(t) \in SplitChars
         THEN (IF cur = <<>> THEN <<>> ELSE <<cur>>) \o SplitTokens(Tail(t), <<>>)
         ELSE SplitTokens(Tail(t), Append(cur, Head(t)))

\* int(s) of a string of digits
RECURSIVE IntOf(_, _)
IntOf(s, acc) == IF s = <<>> THEN acc ELSE IntOf(Tail(s), acc * 10 + DigitVal(Head(s)))

\* \d+ as a whole
AllDigits(s) == s # <<>> /\ \A k \in DOMAIN s : s[k] \in Digits

\* [^\d\s]+ as a whole
NoDigits(s) == s # <<>> /\ \A k \in DOMAIN s : s[k] \notin Digits /\ s[k] \notin SpaceChars

\* length of the leading run of digits
RECURSIVE DigitPrefixLen(_)
DigitPrefixLen(s) ==
    IF s # <<>> /\ Head(s) \in Digits THEN 1 + DigitPrefixLen(Tail(s)) ELSE 0

\* length of the trailing run of digits
RECURSIVE DigitSuffixLen(_)
DigitSuffixLen(s) ==
    IF s # <<>> /\ s[Len(s)] \in Digits
    THEN 1 + DigitSuffixLen(SubSeq(s, 1, Len(s) - 1)) ELSE 0

\* a regex match: ok, and the two groups
Match(ok, g1, g2) == [ok |-> ok, g1 |-> g1, g2 |-> g2]

NoMatch == Match(FALSE, <<>>, <<>>)

\* the split of tok at position p, which holds the hyphen
SplitAt(tok, p) == Match(TRUE, SubSeq(tok, 1, p - 1), SubSeq(tok, p + 1, Len(tok)))

re_int(tok) == AllDigits(tok)

\* ^(\d+)-(\d+)$
re_num_num(tok) ==
    LET p == DigitPrefixLen(tok) + 1
    IN IF p >= 2 /\ p < Len(tok) /\ tok[p] = "-" /\ AllDigits(SubSeq(tok, p + 1, Len(tok)))
       THEN SplitAt(tok, p) ELSE NoMatch

\* ^(\d+)-([^\d\s]+)$
re_a_sp(tok) ==
    LET p == DigitPrefixLen(tok) + 1
    IN IF p >= 2 /\ p < Len(tok) /\ tok[p] = "-" /\ NoDigits(SubSeq(tok, p + 1, Len(tok)))
       THEN SplitAt(tok, p) ELSE NoMatch

\* ^([^\d\s]+)-(\d+)$
re_sp_b(tok) ==
    LET p == Len(tok) - DigitSuffixLen(tok)
    IN IF p < Len(tok) /\ p >= 2 /\ tok[p] = "-" /\ NoDigits(SubSeq(tok, 1, p - 1))
       THEN SplitAt(tok, p) ELSE NoMatch

\* ^([^\d\s]+)-([^\d\s]+)$: the greedy first group ends at the last hyphen
\* that leaves both groups non-empty
re_sp_sp(tok) ==
    LET ps == {p \in 2..(Len(tok) - 1) : tok[p] = "-"}
    IN IF NoDigits(tok) /\ ps # {}
       THEN SplitAt(tok, CHOOSE p \in ps : \A q \in ps : q <= p) ELSE NoMatch

SPECIAL_KEYS_JF == {<<"zh_ji", "zh_fang">>, <<"zh_ji", "zh_fang", "zh_ceng">>, <<"j", "f">>}

SPECIAL_KEYS_WM ==
    {<<"zh_wu", "zh_mian">>, <<"zh_wu", "zh_ding", "zh_ceng">>, <<"zh_ding", "zh_ceng">>,
     <<"w", "m">>, <<"r", "o", "o", "f">>}

\* SPECIAL_MAP.get(key)
SPECIAL_MAP(key) ==
    IF key \in SPECIAL_KEYS_JF THEN Some(JF_VAL)
    ELSE IF key \in SPECIAL_KEYS_WM THEN Some(WM_VAL)
    ELSE None

\* norm_token(s) with the full-width parentheses replaced, looked up
sp_val(s) ==
    SPECIAL_MAP([k \in DOMAIN LowerText(Strip(s)) |->
                    IF LowerText(Strip(s))[k] = "fw_lparen" THEN "("
                    ELSE IF LowerText(Strip(s))[k] = "fw_rparen" THEN ")"
                    ELSE LowerText(Strip(s))[k]])

\* (lo, hi) with lo <= hi
Ordered(a, b) == IF a <= b THEN <<a, b>> ELSE <<b, a>>

\* the body of the token loop: the ranges one token appends
TokenRanges(tok) ==
    IF re_int(tok) THEN <<<<IntOf(tok, 0), IntOf(tok, 0)>>>>
    ELSE IF re_num_num(tok).ok
    THEN <<Ordered(IntOf(re_num_num(tok).g1, 0), IntOf(re_num_num(tok).g2, 0))>>
    ELSE IF re_a_sp(tok).ok /\ sp_val(re_a_sp(tok).g2).some
    THEN <<Ordered(IntOf(re_a_sp(tok).g1, 0), sp_val(re_a_sp(tok).g2).v)>>
    ELSE IF re_sp_b(tok).ok /\ sp_val(re_sp_b(tok).g1).some
    THEN <<Ordered(sp_val(re_sp_b(tok).g1).v, IntOf(re_sp_b(tok).g2, 0))>>
    ELSE IF /\ re_sp_sp(tok).ok
            /\ sp_val(re_sp_sp(tok).g1).some
            /\ sp_val(re_sp_sp(tok).g2).some
    THEN <<Ordered(sp_val(re_sp_sp(tok).g1).v, sp_val(re_sp_sp(tok).g2).v)>>
    ELSE IF sp_val(tok).some THEN <<<<sp_val(tok).v, sp_val(tok).v>>>>
    ELSE <<>>

RECURSIVE AllTokenRanges(_)
AllTokenRanges(tokens) ==
    IF tokens = <<>> THEN <<>>
    ELSE TokenRanges(Head(tokens)) \o AllTokenRanges(Tail(tokens))

\* key=lambda x: (x[0], x[1])
RangeLE(x, y) == x[1] < y[1] \/ (x[1] = y[1] /\ x[2] <= y[2])

RECURSIVE InsertRange(_, _)
InsertRange(sorted, x) ==
    IF sorted = <<>> THEN <<x>>
    ELSE IF RangeLE(Head(sorted), x) THEN <<Head(sorted)>> \o InsertRange(Tail(sorted), x)
    ELSE <<x>> \o sorted

\* ranges.sort(...)
RECURSIVE SortRanges(_)
SortRanges(rs) ==
    IF rs = <<>> THEN <<>>
    ELSE InsertRange(SortRanges(SubSeq(rs, 1, Len(rs) - 1)), rs[Len(rs)])

\* the merged interval keeps the upper end of the later one
MergedHi_Last(mhi, hi) == hi

\* max(mhi, hi)
MergedHi(mhi, hi) == Max(mhi, hi)

\* the merge loop over the sorted ranges
RECURSIVE MergeRanges(_, _)
MergeRanges(rs, merged) ==
    IF rs = <<>> THEN merged
    ELSE LET lo == Head(rs)[1]
             hi == Head(rs)[2]
             n == Len(merged)
         IN IF merged = <<>> THEN MergeRanges(Tail(rs), <<Head(rs)>>)
            ELSE IF lo <= merged[n][2]
            THEN MergeRanges(Tail(rs),
                             [merged EXCEPT ![n] = <<merged[n][1], MergedHi(merged[n][2], hi)>>])
            ELSE MergeRanges(Tail(rs), Append(merged, Head(rs)))

\* the sentinel read as the empty list
EMPTY_SENTINEL_AsAll == <<>>

\* [(1, 0)]: no value is in it
EMPTY_SENTINEL == <<<<1, 0>>>>

_parse_int_ranges(expr) ==
    LET text == Strip(expr)
        ranges == AllTokenRanges(SplitTokens(UnifyHyphens(NFKCText(text)), <<>>))
    IN IF text = <<>> THEN EMPTY_SENTINEL
       ELSE IF text \in {<<"*">>, <<"fw_star">>} THEN <<>>
       ELSE IF ranges = <<>> THEN EMPTY_SENTINEL
       ELSE MergeRanges(SortRanges(ranges), <<>>)

_STAR_TOKENS == {<<"*">>, <<"zh_quan", "zh_bu">>, <<"zh_suo", "zh_you">>}

_is_explicit_all_token(value) ==
    LET token == Strip(NFKCText(value))
    IN /\ token # <<>>
       /\ (token \in _STAR_TOKENS \/ LowerText(token) = <<"a", "l", "l">>)

_is_lk(s) == LowerText(Strip(NFKCText(s))) = <<"l", "k">>

parse_rule(text) ==
    LET s == Strip(text)
    IN IF s = <<>> THEN Rule(FALSE, <<>>, FALSE)
       ELSE IF _is_explicit_all_token(s) THEN Rule(TRUE, <<>>, TRUE)
       ELSE Rule(TRUE, _parse_int_ranges(s), FALSE)

\* val is an integer
_in_ranges(val, ranges) ==
    IF ranges = <<>> THEN TRUE
    ELSE \E k \in DOMAIN ranges : ranges[k][1] <= val /\ val <= ranges[k][2]

----------------------------------------------------------------------------
(* Mode1ConfigProvider: rule normalisation *)

\* a list of ranges, or None
NoRanges == [some |-> FALSE, v |-> <<>>]

\* ranges_raw given as a list (rkind "list"), a string (rkind "str") or
\* missing (rkind "unset")
_coerce_ranges(rkind, rstr, rlist) ==
    LET s == Strip(NFKCText(rstr))
    IN IF rkind = "list" THEN Some(rlist)
       ELSE IF rkind = "unset" \/ s = <<>> THEN NoRanges
       ELSE IF _is_lk(s) THEN Some(EMPTY_SENTINEL)
       ELSE IF _is_explicit_all_token(s) THEN Some(<<>>)
       ELSE Some(_parse_int_ranges(s))

_normalize_simple_rule(rd) ==
    LET explicit_all ==
            IF rd.kind = "dict"
            THEN \/ rd.explicit_all
                 \/ (rd.has_raw /\ _is_explicit_all_token(rd.raw))
                 \/ (rd.has_text /\ _is_explicit_all_token(rd.text))
                 \/ (rd.rkind = "str" /\ _is_explicit_all_token(rd.rstr))
            ELSE rd.kind = "str" /\ _is_explicit_all_token(rd.rstr)
        enabled_flag == IF rd.kind = "dict" THEN rd.enabled # "false" ELSE TRUE
        ranges == _coerce_ranges(rd.rkind, rd.rstr, rd.rlist)
    IN IF rd.kind = "none" THEN Rule(FALSE, <<>>, FALSE)
       ELSE IF ~ranges.some THEN Rule(FALSE, <<>>, FALSE)
       ELSE IF ranges.v = EMPTY_SENTINEL THEN Rule(FALSE, <<>>, FALSE)
       ELSE IF ranges.v = <<>> /\ ~explicit_all THEN Rule(FALSE, <<>>, FALSE)
       ELSE Rule(enabled_flag, ranges.v, FALSE)

\* how assign_by_buckets reads a simple rule: enabled, and the value in
\* its ranges
RuleContains(r, val) == r.enabled /\ _in_ranges(val, r.ranges)

----------------------------------------------------------------------------
(* Inputs of the rule parser *)

MaxRuleTokens == 2

\* a token as written; kind "rng" stands for every value between a and b,
\* the other kinds for none
Tok(k, a, b, chars) == [k |-> k, a |-> a, b |-> b, chars |-> chars]

RangeTokens ==
    {Tok("rng", 5, 5, <<"5">>),
     Tok("rng", 2, 2, <<"fw_2">>),
     Tok("rng", 1, 3, <<"1", "-", "3">>),
     Tok("rng", 5, 1, <<"5", "-", "1">>),
     Tok("rng", 4, 5, <<"4", "-", "5">>),
     Tok("rng", 3, 12, <<"3", "zh_zhi", "fw_1", "2">>),
     Tok("rng", 4, JF_VAL, <<"4", "~", "J", "F">>),
     Tok("rng", WM_VAL, 3, <<"zh_wu", "zh_mian", "-", "3">>),
     Tok("rng", JF_VAL, WM_VAL, <<"j", "f", "em_dash", "r", "o", "o", "f">>),
     Tok("rng", JF_VAL, JF_VAL, <<"zh_ji", "zh_fang", "zh_ceng">>),
     Tok("rng", WM_VAL, WM_VAL, <<"W", "M">>)}

JunkTokens ==
    {Tok("junk", 0, 0, <<"a", "b", "c">>),
     Tok("junk", 0, 0, <<"3", "F">>),
     Tok("junk", 0, 0, <<"4", "-", "a", "b", "c">>),
     Tok("junk", 0, 0, <<"-", "3">>)}

LkTokens ==
    {Tok("lk", 0, 0, <<"l", "k">>),
     Tok("lk", 0, 0, <<"L", "k">>),
     Tok("lk", 0, 0, <<"fw_L", "fw_K">>),
     Tok("lk", 0, 0, <<"fw_l", "fw_k">>)}

StarTokens ==
    {Tok("star", 0, 0, <<"*">>),
     Tok("star", 0, 0, <<"fw_star">>),
     Tok("star", 0, 0, <<"A", "l", "l">>),
     Tok("star", 0, 0, <<"zh_quan", "zh_bu">>),
     Tok("star", 0, 0, <<"zh_suo", "zh_you">>)}

TokenPool == RangeTokens \cup JunkTokens \cup LkTokens \cup StarTokens

SepPool == {<<" ">>, <<",", " ">>, <<"zh_dun">>}

PadPool == {<<>>, <<" ">>, <<"fw_space">>}

\* a rule text as written: tokens, the separator between them, and the
\* blanks around the whole
RuleSrcs ==
    LET tss == SeqsUpTo(TokenPool, MaxRuleTokens)
    IN {[toks |-> ts, sep |-> <<" ">>, pad |-> p] :
            ts \in {t \in tss : Len(t) <= 1}, p \in PadPool}
       \cup {[toks |-> ts, sep |-> s, pad |-> <<>>] :
                ts \in {t \in tss : Len(t) = 2}, s \in SepPool}
       \cup {[toks |-> ts, sep |-> <<",", " ">>, pad |-> <<" ">>] :
                ts \in {t \in tss : Len(t) > 2}}

RECURSIVE Join(_, _)
Join(toks, sep) ==
    IF toks = <<>> THEN <<>>
    ELSE IF Len(toks) = 1 THEN toks[1].chars
    ELSE toks[1].chars \o sep \o Join(Tail(toks), sep)

\* the characters of a rule text
Render(src) == src.pad \o Join(src.toks, src.sep) \o src.pad

RuleForms == {"str", "dict_ranges", "dict_parsed", "dict_text", "dict_disabled"}

\* the rule_data a configuration holds for a rule text
RuleDataOf(text, form) ==
    LET parsed == parse_rule(text)
        base == [kind |-> "dict", enabled |-> "unset", rkind |-> "unset", rstr |-> <<>>,
                 rlist |-> <<>>, explicit_all |-> FALSE, has_raw |-> FALSE, raw |-> <<>>,
                 has_text |-> FALSE, text |-> <<>>]
    IN CASE form = "str" -> [base EXCEPT !.kind = "str", !.rkind = "str", !.rstr = text]
         [] form = "dict_ranges" -> [base EXCEPT !.rkind = "str", !.rstr = text]
         [] form = "dict_parsed" ->
                [base EXCEPT !.enabled = IF parsed.enabled THEN "true" ELSE "false",
                             !.rkind = "list", !.rlist = parsed.ranges,
                             !.explicit_all = parsed.explicit_all,
                             !.has_raw = TRUE, !.raw = text]
         [] form = "dict_text" ->
                [base EXCEPT !.rkind = "list", !.has_text = TRUE, !.text = text]
         [] form = "dict_disabled" ->
                [base EXCEPT !.enabled = "false", !.rkind = "str", !.rstr = text]

\* parse_rule(text)
ParseRule(src) ==
    /\ rule_pc' = "parsed"
    /\ rule_src' = src
    /\ rule_text' = Render(src)
    /\ rule_data' = RuleDataNone
    /\ rule' = parse_rule(Render(src))
    /\ UNCHANGED notRule

\* _normalize_simple_rule(None)
NormalizeNone ==
    /\ rule_pc' = "normalized"
    /\ rule_src' = [toks |-> <<>>, sep |-> <<" ">>, pad |-> <<>>]
    /\ rule_text' = <<>>
    /\ rule_data' = RuleDataNone
    /\ rule' = _normalize_simple_rule(RuleDataNone)
    /\ UNCHANGED notRule

\* _normalize_simple_rule(rule_data) for the rule_data of a rule text
NormalizeRule(src, form) ==
    /\ rule_pc' = "normalized"
    /\ rule_src' = src
    /\ rule_text' = Render(src)
    /\ rule_data' = RuleDataOf(Render(src), form)
    /\ rule' = _normalize_simple_rule(RuleDataOf(Render(src), form))
    /\ UNCHANGED notRule

InitRule ==
    /\ wb = [t \in FillTitles |-> TemplateSheet]
    /\ FillIdle
    /\ AllocIdle
    /\ DistIdle
    /\ RuleIdle
    /\ AssignIdle
    /\ RunIdle
    /\ BuildIdle
    /\ SegIdle
    /\ PlanIdle

NextRule ==
    \/ (rule_pc = "idle" /\ \E src \in RuleSrcs : ParseRule(src))
    \/ (rule_pc = "idle" /\ NormalizeNone)
    \/ (rule_pc = "idle" /\ \E src \in RuleSrcs, form \in RuleForms : NormalizeRule(src, form))

SpecRule == InitRule /\ [][NextRule]_vars

----------------------------------------------------------------------------
(* Claims on the rule parser *)

\* the values rules are asked about
TestVals == (0..13) \cup {JF_VAL - 1, JF_VAL, WM_VAL, WM_VAL + 1}

\* C7: parse_rule of an empty or blank text, and of 'lk' in any case or
\* width, gives a rule that contains no value; of '*', 'all' and the two
\* Chinese words for "all" it gives a rule that contains every value; and
\* the rule Mode1ConfigProvider normalises from an empty or blank text, or
\* from None, contains no value.
C7_EmptyRejects ==
    /\ (rule_pc = "parsed" /\ (rule_src.toks = <<>> \/
                               (Len(rule_src.toks) = 1 /\ rule_src.toks[1].k = "lk")))
          => \A v \in TestVals : ~RuleContains(rule, v)
    /\ (rule_pc = "parsed" /\ Len(rule_src.toks) = 1 /\ rule_src.toks[1].k = "star")
          => \A v \in TestVals : RuleContains(rule, v)
    /\ (rule_pc = "normalized" /\ rule_src.toks = <<>>)
          => \A v \in TestVals : ~RuleContains(rule, v)

\* C7 witness: parse_rule has read 'LK' written in full-width letters.
C7_Witness ==
    /\ rule_pc = "parsed"
    /\ rule_text = <<"fw_L", "fw_K">>
    /\ rule.enabled

\* a value some range token of the text stands for
Covered(src, v) ==
    \E i \in DOMAIN src.toks :
        /\ src.toks[i].k = "rng"
        /\ Min(src.toks[i].a, src.toks[i].b) <= v
        /\ v <= Max(src.toks[i].a, src.toks[i].b)

\* C8: for a text of integers, a-b ranges, special floors and unrecognised
\* tokens (the accept-all words alone excepted), the parsed rule contains
\* exactly the values between the two ends of some range token, whichever
\* end is written first; with no recognised token it contains none.
C8_ExactCover ==
    (rule_pc = "parsed" /\ ~(Len(rule_src.toks) = 1 /\ rule_src.toks[1].k = "star")) =>
        \A v \in TestVals : RuleContains(rule, v) <=> Covered(rule_src, v)

\* C8 witness: a parsed text holding an unrecognised token before a
\* reversed range whose ends the rule contains.
C8_Witness ==
    /\ rule_pc = "parsed"
    /\ Len(rule_src.toks) = 2
    /\ rule_src.toks[1].k = "junk"
    /\ rule_src.toks[2].k = "rng" /\ rule_src.toks[2].a > rule_src.toks[2].b
    /\ RuleContains(rule, rule_src.toks[2].a) /\ RuleContains(rule, rule_src.toks[2].b)

----------------------------------------------------------------------------
(* Entity names: sequences of characters *)

UpperLetters ==
    {"A", "B", "C", "D", "E", "F", "G", "H", "I", "J", "K", "L", "M", "N", "O", "P",
     "Q", "R", "S", "T", "U", "V", "W", "X", "Y", "Z"}

\* the Chinese characters of the vocabulary
ZhChars ==
    {"zh_ji", "zh_fang", "zh_ceng", "zh_wu", "zh_mian", "zh_ding", "zh_lou",
     "zh_lou_trad", "zh_zhi1", "zh_cheng", "zh_xia", "zh_xian", "zh_fu", "zh_gan",
     "zh_shang", "zh_wang", "zh_jia", "zh_quan", "zh_bu", "zh_suo", "zh_you",
     "zh_zhi", "zh_dao"}

\* \w
IsWordCh(c) ==
    \/ UpperCh(c) \in UpperLetters
    \/ c \in Digits
    \/ c = "_"
    \/ c \in ZhChars

UpperText(t) == [k \in DOMAIN t |-> UpperCh(t[k])]

\* the character at position i; "" outside the text
At(s, i) == IF i \in DOMAIN s THEN s[i] ELSE ""

\* w occurs in s at position i
HasAt(s, i, w) ==
    /\ i >= 1
    /\ i + Len(w) - 1 <= Len(s)
    /\ \A k \in DOMAIN w : s[i + k - 1] = w[k]

\* w in s
ContainsSeq(s, w) == \E i \in 1..(Len(s) + 1) : HasAt(s, i, w)

\* the position after \s* read from position i
RECURSIVE SkipSpaces(_, _)
SkipSpaces(s, i) == IF At(s, i) \in SpaceChars THEN SkipSpaces(s, i + 1) ELSE i

\* the last position of the run of digits that starts at position i
RECURSIVE DigitRunEnd(_, _)
DigitRunEnd(s, i) == IF At(s, i + 1) \in Digits THEN DigitRunEnd(s, i + 1) ELSE i

\* int of the run of digits that starts at position i
IntAt(s, i) == IntOf(SubSeq(s, i, DigitRunEnd(s, i)), 0)

\* \b between positions i - 1 and i
WordBoundary(s, i) == IsWordCh(At(s, i - 1)) # IsWordCh(At(s, i))

\* \bw\b somewhere in s
ContainsWord(s, w) ==
    \E i \in DOMAIN s : HasAt(s, i, w) /\ WordBoundary(s, i) /\ WordBoundary(s, i + Len(w))

\* a\s*b somewhere in s, for two characters a and b
ContainsPair(s, a, b) == \E i \in DOMAIN s : s[i] = a /\ At(s, SkipSpaces(s, i + 1)) = b

MinOf(S) == CHOOSE x \in S : \A y \in S : x <= y

\* the dashes floor_of replaces by "-"
FloorDashes == {"fw_hyphen", "em_dash", "en_dash"}

\* the first match of (?i)[FL]\s*(\d+): positions of the letter
FloorAfterLetter(s) ==
    {i \in DOMAIN s : LowerCh(s[i]) \in {"f", "l"} /\ At(s, SkipSpaces(s, i + 1)) \in Digits}

\* the matches of (\d+)\s*X with X in the set after: positions of the digits
FloorBefore(s, after) ==
    {i \in DOMAIN s :
        s[i] \in Digits /\ At(s, SkipSpaces(s, DigitRunEnd(s, i) + 1)) \in after}

\* the underground rule returns 0 as the last line does
floor_of(name) ==
    LET s == [k \in DOMAIN name |-> IF name[k] \in FloorDashes THEN "-" ELSE name[k]]
        sl == LowerText(s)
    IN IF ContainsSeq(sl, <<"zh_ji", "zh_fang">>) \/ ContainsWord(sl, <<"j", "f">>)
       THEN JF_VAL
       ELSE IF \/ ContainsSeq(s, <<"zh_wu", "zh_mian">>)
               \/ ContainsSeq(s, <<"zh_wu", "zh_ding">>)
               \/ ContainsPair(s, "zh_ding", "zh_ceng")
               \/ ContainsWord(sl, <<"w", "m">>)
               \/ ContainsWord(sl, <<"d", "c">>)
       THEN WM_VAL
       ELSE IF FloorAfterLetter(s) # {}
       THEN IntAt(s, SkipSpaces(s, MinOf(FloorAfterLetter(s)) + 1))
       ELSE IF FloorBefore(s, {"f", "l", "F", "L"}) # {}
       THEN IntAt(s, MinOf(FloorBefore(s, {"f", "l", "F", "L"})))
       ELSE IF FloorBefore(s, {"zh_ceng", "zh_lou_trad", "zh_lou"}) # {}
       THEN IntAt(s, MinOf(FloorBefore(s, {"zh_ceng", "zh_lou_trad", "zh_lou"})))
       ELSE 0

\* the position after \s*[-_]? or \s*[dash]?\s* read from position i
AfterDash(s, i, dashes, spaces_after) ==
    LET j == SkipSpaces(s, i)
    IN IF At(s, j) \in dashes
       THEN (IF spaces_after THEN SkipSpaces(s, j + 1) ELSE j + 1)
       ELSE j

\* the positions where prefix\s*[dashes]?(\d+) matches
NumberedAt(s, prefix, dashes, spaces_after) ==
    {i \in DOMAIN s :
        HasAt(s, i, prefix) /\ At(s, AfterDash(s, i + Len(prefix), dashes, spaces_after)) \in Digits}

\* the number read by the match at position i
NumberAt(s, i, prefix, dashes, spaces_after) ==
    IntAt(s, AfterDash(s, i + Len(prefix), dashes, spaces_after))

WzDashes == {"-", "en_dash", "em_dash"}

\* the positions where (?i)\b(?:WZ|ZC)\s*[dash]?\s*(\d+)\b matches with prefix
WzAt(name, prefix) ==
    {i \in NumberedAt(LowerText(name), prefix, WzDashes, TRUE) :
        /\ WordBoundary(name, i)
        /\ WordBoundary(name, DigitRunEnd(name, AfterDash(name, i + 2, WzDashes, TRUE)) + 1)}

_wz_no(name) ==
    LET latin == WzAt(name, <<"w", "z">>) \cup WzAt(name, <<"z", "c">>)
        zh == NumberedAt(name, <<"zh_zhi1", "zh_cheng">>, WzDashes, TRUE)
    IN IF latin # {} THEN Some(IntAt(name, AfterDash(name, MinOf(latin) + 2, WzDashes, TRUE)))
       ELSE IF zh # {}
       THEN Some(NumberAt(name, MinOf(zh), <<"zh_zhi1", "zh_cheng">>, WzDashes, TRUE))
       ELSE None

NetDashes == {"-", "_"}

\* (?<![A-Z0-9])P(?=[-_]?\d+) somewhere in s, for the two letters P
PartHit(s, p) ==
    \E i \in DOMAIN s :
        /\ HasAt(s, i, p)
        /\ At(s, i - 1) \notin (UpperLetters \cup Digits)
        /\ \/ At(s, i + 2) \in Digits
           \/ (At(s, i + 2) \in NetDashes /\ At(s, i + 3) \in Digits)

\* the last alternative returns "GEN" as the last line does
net_part(name) ==
    LET s == UpperText(name)
    IN IF PartHit(s, <<"X", "X">>) \/ ContainsPair(s, "zh_xia", "zh_xian") THEN "XX"
       ELSE IF PartHit(s, <<"F", "G">>) \/ ContainsPair(s, "zh_fu", "zh_gan") THEN "FG"
       ELSE IF PartHit(s, <<"S", "X">>) \/ ContainsPair(s, "zh_shang", "zh_xian") THEN "SX"
       ELSE "GEN"

PartLetters(part) ==
    CASE part = "XX" -> <<"X", "X">>
      [] part = "FG" -> <<"F", "G">>
      [] part = "SX" -> <<"S", "X">>

\* the prefixes of the generic pattern in s at position i: WJ, the Chinese
\* word, SPACE FRAME with any blanks between, GRID
GenPrefixes(s, i) ==
    {p \in {<<"W", "J">>, <<"zh_wang", "zh_jia">>, <<"G", "R", "I", "D">>} : HasAt(s, i, p)}
    \cup (IF HasAt(s, i, <<"S", "P", "A", "C", "E">>)
             /\ HasAt(s, SkipSpaces(s, i + 5), <<"F", "R", "A", "M", "E">>)
          THEN {SubSeq(s, i, SkipSpaces(s, i + 5) + 4)} ELSE {})

_net_no(name) ==
    LET s == UpperText(name)
        part == net_part(name)
        gen == {i \in DOMAIN s :
                   \E p \in GenPrefixes(s, i) : i \in NumberedAt(s, p, NetDashes, FALSE)}
    IN IF part \in {"XX", "FG", "SX"}
       THEN (IF NumberedAt(s, PartLetters(part), NetDashes, FALSE) # {}
             THEN Some(NumberAt(s, MinOf(NumberedAt(s, PartLetters(part), NetDashes, FALSE)),
                                PartLetters(part), NetDashes, FALSE))
             ELSE None)
       ELSE IF gen # {}
       THEN Some(NumberAt(s, MinOf(gen), CHOOSE p \in GenPrefixes(s, MinOf(gen)) : TRUE,
                          NetDashes, FALSE))
       ELSE None

\* an empty keyword list matches every name
_match_keywords(name, kws) ==
    \/ kws = <<>>
    \/ \E k \in DOMAIN kws : ContainsSeq(LowerText(name), LowerText(kws[k]))

----------------------------------------------------------------------------
(* assign_by_buckets *)

\* str(strategy).strip().lower() on the strategy texts of the vocabulary
StrategyText(v) ==
    CASE v = " Floor " -> "floor"
      [] v = " floor " -> "floor"
      [] v = "NUMBER" -> "number"
      [] OTHER -> v

set_support_strategy(strategy) ==
    /\ asg_pc = "idle"
    /\ IF strategy = NoStrategy
       THEN support_bucket_strategy' = NoStrategy /\ asg_pc' = asg_pc
       ELSE IF StrategyText(strategy) \notin {"number", "floor"}
       THEN support_bucket_strategy' = support_bucket_strategy /\ asg_pc' = "raised"
       ELSE support_bucket_strategy' = StrategyText(strategy) /\ asg_pc' = asg_pc
    /\ UNCHANGED <<net_bucket_strategy, cat_groups, buckets, later_priority, cat_byb,
                   remain_by_cat>>
    /\ UNCHANGED notAssign

set_net_strategy(strategy) ==
    /\ asg_pc = "idle"
    /\ IF strategy = NoStrategy
       THEN net_bucket_strategy' = NoStrategy /\ asg_pc' = asg_pc
       ELSE IF StrategyText(strategy) \notin {"number", "floor"}
       THEN net_bucket_strategy' = net_bucket_strategy /\ asg_pc' = "raised"
       ELSE net_bucket_strategy' = StrategyText(strategy) /\ asg_pc' = asg_pc
    /\ UNCHANGED <<support_bucket_strategy, cat_groups, buckets, later_priority, cat_byb,
                   remain_by_cat>>
    /\ UNCHANGED notAssign

\* (strategy or "number").lower()
StrategyOrNumber(strategy) == IF strategy = NoStrategy THEN "number" ELSE strategy

\* the bucket indices in ascending order whatever later_priority says
PriorityOrder_Ascending(n, later) == [k \in 1..n |-> k - 1]

\* order: range(len(buckets) - 1, -1, -1) if later_priority else range(len(buckets))
PriorityOrder(n, later) == [k \in 1..n |-> IF later THEN n - k ELSE k - 1]

\* a group of rows; oid stands for the identity of the Python object
Group(name, oid) == [name |-> name, oid |-> oid]

\* parts.get(part) or parts.get("GEN"), as a set of at most one rule
PartRule(b, part) ==
    IF part \in DOMAIN b.net_parts THEN {b.net_parts[part]}
    ELSE IF "GEN" \in DOMAIN b.net_parts THEN {b.net_parts["GEN"]}
    ELSE {}

\* (rule.get("strategy") or net_strategy_default).lower()
BucketNetStrategy(b, net_strategy_default) ==
    IF b.net_strategy = NoStrategy THEN net_strategy_default ELSE b.net_strategy

\* the body of the loop over the buckets: bucket b takes the group named name
Takes(cat, name, b, sup_strategy, net_strategy_default) ==
    LET fl == floor_of(name)
        wzno == IF cat = "Bracing" /\ sup_strategy = "number" THEN _wz_no(name) ELSE None
    IN IF cat = "GridFrame"
       THEN /\ b.has_net
            /\ \E part_rule \in PartRule(b, net_part(name)) :
                  /\ part_rule.enabled
                  /\ IF BucketNetStrategy(b, net_strategy_default) = "number"
                     THEN /\ _net_no(name).some
                          /\ _in_ranges(_net_no(name).v, part_rule.ranges)
                     ELSE _in_ranges(fl, part_rule.ranges)
            /\ _match_keywords(name, b.kws)
       ELSE /\ cat \in DOMAIN b.rules
            /\ b.rules[cat].enabled
            /\ IF cat = "Bracing" /\ sup_strategy = "number"
               THEN \/ b.rules[cat].ranges = <<>>
                    \/ (wzno.some /\ _in_ranges(wzno.v, b.rules[cat].ranges))
               ELSE _in_ranges(fl, b.rules[cat].ranges)
            /\ _match_keywords(name, b.kws)

\* for bi in order: ... break; the bucket index that takes the group, if any
RECURSIVE FirstTaker(_, _, _, _, _, _)
FirstTaker(order, cat, name, bs, sup_strategy, net_strategy_default) ==
    IF order = <<>> THEN None
    ELSE IF Takes(cat, name, bs[Head(order) + 1], sup_strategy, net_strategy_default)
    THEN Some(Head(order))
    ELSE FirstTaker(Tail(order), cat, name, bs, sup_strategy, net_strategy_default)

\* for idx, g in enumerate(groups): byb and assigned after the groups from idx on
RECURSIVE GroupLoop(_, _, _, _, _, _, _, _)
GroupLoop(cat, groups, idx, bs, order, sup_strategy, net_strategy_default, acc) ==
    IF idx >= Len(groups) THEN acc
    ELSE LET g == groups[idx + 1]
             t == FirstTaker(order, cat, g.name, bs, sup_strategy, net_strategy_default)
         IN GroupLoop(cat, groups, idx + 1, bs, order, sup_strategy, net_strategy_default,
                      IF t.some
                      THEN [byb |-> [acc.byb EXCEPT ![t.v] = Append(@, g)],
                            assigned |-> acc.assigned \cup {idx}]
                      ELSE acc)

\* every group is left over
RemainOf_All(groups, assigned) == groups

\* [g for i, g in enumerate(groups) if i not in assigned[cat]]
RemainOf(groups, assigned) ==
    LET idxs == SelectSeq([i \in 1..Len(groups) |-> i - 1], LAMBDA i : i \notin assigned)
    IN [k \in DOMAIN idxs |-> groups[idxs[k] + 1]]

\* byb and assigned of one category at the end of the loops
AssignCat(cat, groups, bs, later, sup, net) ==
    GroupLoop(cat, groups, 0, bs, PriorityOrder(Len(bs), later),
              StrategyOrNumber(sup), StrategyOrNumber(net),
              [byb |-> [bix \in 0..(Len(bs) - 1) |-> <<>>], assigned |-> {}])

assign_by_buckets(cg, bs, later) ==
    /\ asg_pc = "idle"
    /\ asg_pc' = "done"
    /\ cat_groups' = cg
    /\ buckets' = bs
    /\ later_priority' = later
    /\ \E res \in {[cat \in DOMAIN cg |->
                      AssignCat(cat, cg[cat], bs, later, support_bucket_strategy,
                                net_bucket_strategy)]} :
          /\ cat_byb' = [cat \in DOMAIN cg |-> res[cat].byb]
          /\ remain_by_cat' = [cat \in DOMAIN cg |-> RemainOf(cg[cat], res[cat].assigned)]
    /\ UNCHANGED <<support_bucket_strategy, net_bucket_strategy>>
    /\ UNCHANGED notAssign

----------------------------------------------------------------------------
(* Inputs of assign_by_buckets *)

MaxBuckets == 2

\* 'GZ1 3F'
NameCS_A == <<"G", "Z", "1", " ", "3", "F">>

\* 'GZ2 East 5F'
NameCS_B == <<"G", "Z", "2", " ", "E", "a", "s", "t", " ", "5", "F">>

\* 'WZ3'
NameBR_A == <<"W", "Z", "3">>

\* 'ZC-5 East 2F'
NameBR_B == <<"Z", "C", "-", "5", " ", "E", "a", "s", "t", " ", "2", "F">>

\* 'XC 3F'
NameBR_C == <<"X", "C", " ", "3", "F">>

\* 'XX1'
NameGF_A == <<"X", "X", "1">>

\* 'WJ-3 East'
NameGF_B == <<"W", "J", "-", "3", " ", "E", "a", "s", "t">>

\* 'SX 2F'
NameGF_C == <<"S", "X", " ", "2", "F">>

\* the groups of a category, in input order
MakeGroups(names) == [k \in DOMAIN names |-> Group(names[k], k - 1)]

GroupLists(cat) ==
    CASE cat = "ColumnSteel" ->
            {<<NameCS_A>>, <<NameCS_A, NameCS_B>>, <<NameCS_B, NameCS_A, NameCS_A>>}
      [] cat = "Bracing" ->
            {<<NameBR_A, NameBR_B, NameBR_C>>, <<NameBR_C, NameBR_A>>, <<NameBR_B, NameBR_B>>}
      [] cat = "GridFrame" ->
            {<<NameGF_A, NameGF_B, NameGF_C>>, <<NameGF_C, NameGF_B>>, <<NameGF_A, NameGF_A>>}

\* cat_groups: one category, or the three of them, or none
CatGroupInputs ==
    UNION {{[c \in {cat} |-> MakeGroups(ns)] : ns \in GroupLists(cat)} :
             cat \in {"ColumnSteel", "Bracing", "GridFrame"}} \cup
    {[c \in {"ColumnSteel", "Bracing", "GridFrame"} |->
        MakeGroups(CASE c = "ColumnSteel" -> <<NameCS_A, NameCS_B>>
                     [] c = "Bracing" -> <<NameBR_B>>
                     [] c = "GridFrame" -> <<>>)],
     [c \in {} |-> <<>>]}

\* a bucket of prompt_date_buckets: the rule of the simple categories, the
\* GridFrame rule (strategy and parts) and the keywords
Bucket(rules, has_net, net_strategy, net_parts, kws) ==
    [rules |-> rules, has_net |-> has_net, net_strategy |-> net_strategy,
     net_parts |-> net_parts, kws |-> kws]

\* the same rule text for the simple categories
SimpleRules(text) == [c \in {"ColumnSteel", "Bracing"} |-> parse_rule(text)]

BucketPool ==
    {Bucket(SimpleRules(<<"*">>), TRUE, NoStrategy,
            [p \in {"GEN"} |-> parse_rule(<<"*">>)], <<>>),
     Bucket(SimpleRules(<<"1", "-", "3">>), TRUE, NoStrategy,
            [p \in {"XX"} |-> parse_rule(<<"1", "-", "3">>)], <<>>),
     Bucket(SimpleRules(<<"1", "-", "3">>), TRUE, "floor",
            [p \in {"GEN"} |-> parse_rule(<<"5", "-", "1">>)], <<<<"E", "A", "S", "T">>>>),
     Bucket(SimpleRules(<<"3", " ", "5">>), TRUE, "number",
            [p \in {"GEN", "XX"} |->
                IF p = "GEN" THEN parse_rule(<<"3", " ", "5">>) ELSE parse_rule(<<>>)], <<>>),
     Bucket(SimpleRules(<<>>), TRUE, NoStrategy,
            [p \in {"GEN"} |-> parse_rule(<<" ">>)], <<>>),
     Bucket([c \in {} |-> parse_rule(<<>>)], FALSE, NoStrategy,
            [p \in {} |-> parse_rule(<<>>)], <<<<"e", "a", "s", "t">>>>)}

StrategyInputs == {NoStrategy, "number", "floor", " Floor ", "NUMBER", "auto"}

InitAssign ==
    /\ wb = [t \in FillTitles |-> TemplateSheet]
    /\ FillIdle
    /\ AllocIdle
    /\ DistIdle
    /\ RuleIdle
    /\ AssignIdle
    /\ RunIdle
    /\ BuildIdle
    /\ SegIdle
    /\ PlanIdle

NextAssign ==
    \/ \E v \in StrategyInputs : set_support_strategy(v)
    \/ \E v \in StrategyInputs : set_net_strategy(v)
    \/ (asg_pc = "idle" /\
        \E cg \in CatGroupInputs, bs \in SeqsUpTo(BucketPool, MaxBuckets), later \in BOOLEAN :
            assign_by_buckets(cg, bs, later))

SpecAssign == InitAssign /\ [][NextAssign]_vars

----------------------------------------------------------------------------
(* Claims on assign_by_buckets *)

\* the rule of bucket b for the category and the name, if it has one
CatRule(cat, name, b) ==
    IF cat = "GridFrame" THEN (IF b.has_net THEN PartRule(b, net_part(name)) ELSE {})
    ELSE IF cat \in DOMAIN b.rules THEN {b.rules[cat]} ELSE {}

\* the value bucket b matches on: the number under the number strategy of
\* Bracing and GridFrame, the floor otherwise
EntityValue(cat, name, b) ==
    IF cat = "Bracing" /\ StrategyOrNumber(support_bucket_strategy) = "number"
    THEN _wz_no(name)
    ELSE IF cat = "GridFrame" /\
            BucketNetStrategy(b, StrategyOrNumber(net_bucket_strategy)) = "number"
    THEN _net_no(name)
    ELSE Some(floor_of(name))

\* the rule of b for the category is enabled and contains the value
RuleMatches(cat, name, b) ==
    \E r \in CatRule(cat, name, b) :
        r.enabled /\ RuleContains(r, EntityValue(cat, name, b).v)

\* the keywords of b match the name: no keyword, or one of them occurs in
\* the name whatever the case of the letters
KeywordsMatch(name, b) ==
    \/ b.kws = <<>>
    \/ \E k \in DOMAIN b.kws : \E i \in DOMAIN name :
          /\ i + Len(b.kws[k]) - 1 <= Len(name)
          /\ \A j \in DOMAIN b.kws[k] : UpperCh(name[i + j - 1]) = UpperCh(b.kws[k][j])

\* the buckets that may take the entity
Candidates(cat, name) ==
    {bix \in 0..(Len(buckets) - 1) :
        RuleMatches(cat, name, buckets[bix + 1]) /\ KeywordsMatch(name, buckets[bix + 1])}

\* the first of the candidates in priority order: the greatest index when
\* later_priority, the least otherwise
FirstCandidate(cands) ==
    CHOOSE bix \in cands : \A bj \in cands : IF later_priority THEN bj <= bix ELSE bix <= bj

\* the entity has a value for every bucket
HasValue(cat, name) ==
    \A k \in DOMAIN buckets : EntityValue(cat, name, buckets[k]).some

ListsOf(cat) ==
    [k \in 1..(Len(buckets) + 1) |->
        IF k <= Len(buckets) THEN cat_byb[cat][k - 1] ELSE remain_by_cat[cat]]

\* C10: for every category the per-bucket lists and the leftover list
\* partition the input list: every input entity is in exactly one list,
\* once, and every list keeps the input order.
C10_Partition ==
    asg_pc = "done" =>
        \A cat \in DOMAIN cat_groups :
            /\ DOMAIN cat_byb[cat] = 0..(Len(buckets) - 1)
            /\ \A k \in DOMAIN cat_groups[cat] :
                  Cardinality({<<l, j>> \in (DOMAIN ListsOf(cat)) \X (1..Len(cat_groups[cat])) :
                                  /\ j <= Len(ListsOf(cat)[l])
                                  /\ ListsOf(cat)[l][j] = cat_groups[cat][k]}) = 1
            /\ \A l \in DOMAIN ListsOf(cat) :
                  LET lst == ListsOf(cat)[l]
                  IN /\ \A j \in DOMAIN lst : lst[j] \in Range(cat_groups[cat])
                     /\ \A i, j \in DOMAIN lst : i < j => lst[i].oid < lst[j].oid

\* C10 witness: two entities with the same name are in one bucket list
\* while another entity of the category is left over.
C10_Witness ==
    /\ asg_pc = "done"
    /\ \E cat \in DOMAIN cat_groups : \E bix \in DOMAIN cat_byb[cat] :
          /\ \E i, j \in DOMAIN cat_byb[cat][bix] :
                i < j /\ cat_byb[cat][bix][i].name = cat_byb[cat][bix][j].name
          /\ remain_by_cat[cat] # <<>>

----------------------------------------------------------------------------
(* Block Builder: groups_from_your_rows, expand_blocks *)

\* one row of groups_from_your_rows: every value of the line is written
\* twice, the readings are padded with "/" and cut to 8, the average
\* follows; an empty value or average reads as "/"
ReadingRow(vals, avg) ==
    LET vals8 == [k \in 1..(2 * Len(vals)) |->
                      IF vals[(k + 1) \div 2] = "" THEN Slash ELSE vals[(k + 1) \div 2]]
    IN [c \in 1..9 |-> IF c = 9 THEN (IF avg = "" THEN Slash ELSE avg)
                       ELSE IF c <= Len(vals8) THEN vals8[c] ELSE Slash]

\* rows[k:k + block_size] without the padding rows
Chunk_Short(rows, k, block_size) ==
    [r \in 1..Min(block_size, Len(rows) - k) |-> rows[k + r]]

\* sub = rows[k:k + block_size]; while len(sub) < block_size: sub.append(['/'] * 9)
Chunk(rows, k, block_size) ==
    [r \in 1..block_size |-> IF k + r <= Len(rows) THEN rows[k + r] ELSE PadRow]

\* the blocks of one group from row k on:
\* for k in range(0, len(rows), block_size): blocks.append({"name", "data"})
RECURSIVE BlocksFrom(_, _, _)
BlocksFrom(g, k, block_size) ==
    IF k >= Len(g.data) THEN <<>>
    ELSE <<[name |-> g.name, data |-> Chunk(g.data, k, block_size)]>>
             \o BlocksFrom(g, k + block_size, block_size)

\* only the slices that are full without padding
GroupBlocks_FullOnly(g, block_size) ==
    SubSeq(BlocksFrom(g, 0, block_size), 1, Len(g.data) \div block_size)

GroupBlocks(g, block_size) == BlocksFrom(g, 0, block_size)

RECURSIVE expand_blocks(_, _)
expand_blocks(groups, block_size) ==
    IF groups = <<>> THEN <<>>
    ELSE GroupBlocks(Head(groups), block_size) \o expand_blocks(Tail(groups), block_size)

----------------------------------------------------------------------------
(* Mode 1: Mode1ConfigProvider, run_mode1_with_provider, run_mode,
   export_mode1_noninteractive.  The workbook holds the block slots of the
   sheets; the header cells, the fonts, the order of the sheets and the
   files written are outside the model. *)

\* 'GZ<k> 3F'
NameGZk(k) == <<"G", "Z", CHOOSE d \in Digits : DigitVal(d) = k, " ", "3", "F">>

\* the name of an entity as the sequence of tokens kind_of reads
\* 'XC 5F' and 'XC WM': no category word, floor 5 and the roof
NameOT_A == <<"X", "C", " ", "5", "F">>

NameOT_B == <<"X", "C", " ", "W", "M">>

NameTokens(name) ==
    IF \E k \in 1..9 : name = NameGZk(k)
    THEN <<W("GZ"), N(CHOOSE k \in 1..9 : name = NameGZk(k)), W(" "), N(3), W("F")>>
    ELSE CASE name = NameCS_B -> <<W("GZ"), N(2), W(" "), W("East"), W(" "), N(5), W("F")>>
           [] name = NameBR_A -> <<W("WZ"), N(3)>>
           [] name = NameBR_B -> <<W("ZC"), W("-"), N(5), W(" "), W("East"), W(" "), N(2), W("F")>>
           [] name = NameBR_C -> <<W("XC"), W(" "), N(3), W("F")>>
           [] name = NameOT_A -> <<W("XC"), W(" "), N(5), W("F")>>
           [] name = NameOT_B -> <<W("XC"), W(" "), W("WM")>>
           [] name = NameGF_A -> <<W("XX"), N(1)>>
           [] name = NameGF_B -> <<W("WJ"), W("-"), N(3), W(" "), W("East")>>
           [] name = NameGF_C -> <<W("SX"), W(" "), N(2), W("F")>>
           [] OTHER -> <<>>

\* a group of groups_from_your_rows: name, rows, and the identity of the object
Entity(name, oid, data) == [name |-> name, oid |-> oid, data |-> data]

\* [g for g in groups if kind_of(g["name"]) == cat]
GroupsOfKind(gs, cat) == SelectSeq(gs, LAMBDA g : kind_of(NameTokens(g.name)) = cat)

\* grouped[kind_of(g["name"])].append(g): the categories that hold a group
prepare_from_word(gs) ==
    [cat \in {c \in Range(CATEGORY_ORDER) : GroupsOfKind(gs, c) # <<>>} |->
        GroupsOfKind(gs, cat)]

\* categories_present = [cat for cat in CATEGORY_ORDER if grouped.get(cat)]
CategoriesPresent(g) == SelectSeq(CATEGORY_ORDER, LAMBDA cat : cat \in DOMAIN g)

\* str.lower() on the strategy texts of the vocabulary
LowerStrategy(v) ==
    CASE v = " Floor " -> " floor "
      [] v = "NUMBER" -> "number"
      [] OTHER -> v

\* whether set_support_strategy / set_net_strategy raises ValueError
set_strategy_raises(strategy) ==
    strategy # NoStrategy /\ StrategyText(strategy) \notin {"number", "floor"}

\* the global after set_support_strategy / set_net_strategy returns
set_strategy_value(strategy) ==
    IF strategy = NoStrategy THEN NoStrategy ELSE StrategyText(strategy)

\* a bucket as the caller writes it: rule texts by category, the GridFrame
\* rule (own strategy or none, rule texts by part) and the keywords
RawBucket(rules, has_net, net_strategy, net_parts, kws) ==
    [rules |-> rules, has_net |-> has_net, net_strategy |-> net_strategy,
     net_parts |-> net_parts, kws |-> kws]

\* Mode1ConfigProvider._normalize_bucket with _normalize_net_rule
_normalize_bucket(raw, net_strategy) ==
    Bucket([cat \in DOMAIN raw.rules |->
               _normalize_simple_rule(RuleDataOf(raw.rules[cat], "str"))],
           raw.has_net,
           IF raw.net_strategy = NoStrategy THEN net_strategy
           ELSE LowerStrategy(raw.net_strategy),
           [p \in DOMAIN raw.net_parts |->
               _normalize_simple_rule(RuleDataOf(raw.net_parts[p], "str"))],
           raw.kws)

\* Mode1ConfigProvider.__init__
Mode1ConfigProvider(raw_buckets, support_strategy, net_strategy, later, auto_merge_rest) ==
    [support_strategy |-> LowerStrategy(StrategyOrNumber(support_strategy)),
     net_strategy |-> LowerStrategy(StrategyOrNumber(net_strategy)),
     later_priority |-> later,
     auto_merge_rest |-> auto_merge_rest,
     buckets |-> [k \in DOMAIN raw_buckets |->
                     _normalize_bucket(raw_buckets[k],
                                       LowerStrategy(StrategyOrNumber(net_strategy)))]]

\* run_mode, mode "1": cat_byb[cat][last].extend(remain_by_cat[cat]);
\* remain_by_cat[cat] = []
AutoLast(byb, rem, n) ==
    [byb |-> [cat \in DOMAIN byb |-> [byb[cat] EXCEPT ![n - 1] = @ \o rem[cat]]],
     rem |-> [cat \in DOMAIN rem |-> <<>>]]

\* merge_remains_into_last_bucket: the greatest bucket index of the maps,
\* 0 when no map has a bucket
merge_remains_into_last_bucket(byb, rem) ==
    LET keys == UNION {DOMAIN byb[cat] : cat \in DOMAIN byb}
        last_idx == IF keys = {} THEN 0 ELSE CHOOSE k \in keys : \A j \in keys : j <= k
    IN [byb |-> [cat \in DOMAIN byb |->
                    IF last_idx \in DOMAIN byb[cat]
                    THEN [byb[cat] EXCEPT ![last_idx] = @ \o rem[cat]]
                    ELSE [k \in DOMAIN byb[cat] \cup {last_idx} |->
                             IF k = last_idx THEN rem[cat] ELSE byb[cat][k]]],
        rem |-> [cat \in DOMAIN rem |-> <<>>]]

\* the groups with their names as token sequences
TokenNamed(groups) == [k \in DOMAIN groups |-> [groups[k] EXCEPT !.name = NameTokens(@)]]

\* expand_blocks_by_bucket
expand_blocks_by_bucket(byb) ==
    [cat \in DOMAIN byb |->
        [bix \in DOMAIN byb[cat] |-> expand_blocks(TokenNamed(byb[cat][bix]), PER_LINE_PER_BLOCK)]]

\* only the normal pages of the category
_filter_pages_for_cat_NoMu(pages, cat) ==
    SelectSeq(pages, LAMBDA p : _sheet_cat_from_title(p) = cat /\ ~_is_mu_title(p))

\* _filter_pages_for_cat
_filter_pages_for_cat(pages, cat) ==
    SelectSeq(pages, LAMBDA p : _sheet_cat_from_title(p) = cat)

\* cleanup_unused_mu_templates: the bare mu templates that were not used
\* are removed
cleanup_unused_mu_templates(w, used_pages) ==
    [t \in {u \in DOMAIN w :
               ~(u.mu /\ u.num = 0 /\
                 u.base \in {"ColumnSteel", "BeamSteel", "Bracing", "GridFrame"} /\
                 u \notin Range(used_pages))} |-> w[t]]

\* the sheets cleanup_unused_sheets collects in to_remove: those named base
\* or base(n) that were not used
UnusedSheets(w, used_names) ==
    {u \in DOMAIN w : ~u.mu /\ u.base \in Range(CATEGORY_ORDER) /\ u \notin Range(used_names)}

\* to_remove[-1]; the sheets of a category follow each other by number and
\* the categories follow CATEGORY_ORDER
LastSheet(ts) ==
    CHOOSE u \in ts : \A v \in ts :
        LET cu == CHOOSE k \in DOMAIN CATEGORY_ORDER : CATEGORY_ORDER[k] = u.base
            cv == CHOOSE k \in DOMAIN CATEGORY_ORDER : CATEGORY_ORDER[k] = v.base
        IN cv < cu \/ (cv = cu /\ v.num <= u.num)

\* cleanup_unused_sheets with bases = CATEGORY_ORDER: nothing when no page
\* was used; else the sheets named base or base(n) that were not used are
\* removed, all but the last one when they are every sheet of the
\* workbook
cleanup_unused_sheets(w, used_names) ==
    IF used_names = <<>> THEN w
    ELSE LET to_remove == UnusedSheets(w, used_names)
             gone == IF to_remove # {} /\ to_remove = DOMAIN w
                     THEN to_remove \ {LastSheet(to_remove)} ELSE to_remove
         IN [t \in DOMAIN w \ gone |-> w[t]]

\* entry of run_mode1_with_provider up to the call of assign_by_buckets:
\* prepare_from_word, then run_mode("1") resets both strategies and takes
\* the buckets of the provider (the prompt replaced by __pd)
run_mode1_with_provider(gs, prov) ==
    /\ run_pc = "idle"
    /\ run_pc' = "assign"
    /\ run_entry' = "run_mode1_with_provider"
    /\ provider' = prov
    /\ grouped' = prepare_from_word(gs)
    /\ support_bucket_strategy' = NoStrategy
    /\ net_bucket_strategy' = NoStrategy
    /\ UNCHANGED <<prev_support, prev_net, blocks_by_cat_bucket, pages_slices_by_cat,
                   blocks_slices_by_cat, run_i, target>>
    /\ UNCHANGED <<asg_pc, cat_groups, buckets, later_priority, cat_byb, remain_by_cat>>
    /\ UNCHANGED <<wb, fillVars, allocVars, distVars, ruleVars, buildVars, segVars, planVars>>

\* entry of export_mode1_noninteractive up to the call of assign_by_buckets
export_mode1_noninteractive(gs, prov) ==
    /\ run_pc = "idle"
    /\ run_entry' = "export_mode1_noninteractive"
    /\ provider' = prov
    /\ grouped' = prepare_from_word(gs)
    /\ prev_support' = support_bucket_strategy
    /\ prev_net' = net_bucket_strategy
    /\ IF set_strategy_raises(prov.support_strategy)
       THEN /\ run_pc' = "raised"
            /\ UNCHANGED <<support_bucket_strategy, net_bucket_strategy>>
       ELSE IF set_strategy_raises(prov.net_strategy)
       THEN /\ run_pc' = "raised"
            /\ support_bucket_strategy' = set_strategy_value(prov.support_strategy)
            /\ UNCHANGED net_bucket_strategy
       ELSE /\ run_pc' = "assign"
            /\ support_bucket_strategy' = set_strategy_value(prov.support_strategy)
            /\ net_bucket_strategy' = set_strategy_value(prov.net_strategy)
    /\ UNCHANGED <<blocks_by_cat_bucket, pages_slices_by_cat, blocks_slices_by_cat, run_i,
                   target>>
    /\ UNCHANGED <<asg_pc, cat_groups, buckets, later_priority, cat_byb, remain_by_cat>>
    /\ UNCHANGED <<wb, fillVars, allocVars, distVars, ruleVars, buildVars, segVars, planVars>>

\* the leftover groups stay where assign_by_buckets left them
Dispose_Keep(byb, rem, auto_last, entry, n) == [byb |-> byb, rem |-> rem]

\* the disposition of the leftover groups: merged into the last bucket when
\* auto_merge_rest is set (forced_choice in run_mode), left alone otherwise
Dispose(byb, rem, auto_last, entry, n) ==
    IF ~auto_last THEN [byb |-> byb, rem |-> rem]
    ELSE IF entry = "export_mode1_noninteractive"
    THEN merge_remains_into_last_bucket(byb, rem)
    ELSE AutoLast(byb, rem, n)

\* assign_by_buckets and what follows it up to expand_blocks_by_bucket;
\* ok is the answer to the preview of run_mode (anything but "n")
Mode1Assign(ok) ==
    /\ run_pc = "assign"
    /\ asg_pc' = "done"
    /\ cat_groups' = grouped
    /\ buckets' = provider.buckets
    /\ later_priority' = provider.later_priority
    /\ \E res \in {[cat \in DOMAIN grouped |->
                      AssignCat(cat, grouped[cat], provider.buckets, provider.later_priority,
                                support_bucket_strategy, net_bucket_strategy)]} :
       \E d \in {Dispose([cat \in DOMAIN grouped |-> res[cat].byb],
                         [cat \in DOMAIN grouped |-> RemainOf(grouped[cat], res[cat].assigned)],
                         provider.auto_merge_rest, run_entry, Len(provider.buckets))} :
          IF run_entry = "export_mode1_noninteractive"
          THEN /\ ok
               /\ support_bucket_strategy' = set_strategy_value(prev_support)
               /\ net_bucket_strategy' = set_strategy_value(prev_net)
               /\ cat_byb' = d.byb
               /\ remain_by_cat' = d.rem
               /\ blocks_by_cat_bucket' = expand_blocks_by_bucket(d.byb)
               /\ run_pc' = "alloc"
          ELSE IF ok
          THEN /\ UNCHANGED <<support_bucket_strategy, net_bucket_strategy>>
               /\ cat_byb' = d.byb
               /\ remain_by_cat' = d.rem
               /\ blocks_by_cat_bucket' = expand_blocks_by_bucket(d.byb)
               /\ run_pc' = "alloc"
          ELSE /\ support_bucket_strategy' = NoStrategy
               /\ net_bucket_strategy' = NoStrategy
               /\ cat_byb' = [cat \in DOMAIN grouped |-> res[cat].byb]
               /\ remain_by_cat' =
                     [cat \in DOMAIN grouped |-> RemainOf(grouped[cat], res[cat].assigned)]
               /\ UNCHANGED blocks_by_cat_bucket
               /\ run_pc' = "cancelled"
    /\ run_i' = 0
    /\ UNCHANGED <<run_entry, provider, grouped, prev_support, prev_net, pages_slices_by_cat,
                   blocks_slices_by_cat, target>>
    /\ UNCHANGED <<wb, fillVars, allocVars, distVars, ruleVars, buildVars, segVars, planVars>>

\* the number of buckets of the run: the buckets of the provider; mode 3
\* pages every category as the single bucket {0: blocks_all}
NumBuckets == IF run_entry = "run_mode_3" THEN 1 ELSE Len(provider.buckets)

\* the call of ensure_pages_slices_for_cat_muaware for the next category
Mode1AllocCall ==
    /\ run_pc = "alloc"
    /\ run_i < Len(CategoriesPresent(grouped))
    /\ AllocCall(CategoriesPresent(grouped)[run_i + 1], NumBuckets)

\* its loop, on the blocks of the next bucket
Mode1AllocBucket ==
    /\ run_pc = "alloc"
    /\ alloc_pc = "loop"
    /\ AllocBucket(blocks_by_cat_bucket[alloc_cat][Len(pages_slices)])

\* the slices of the categories cats for bucket i (0-based), concatenated
RECURSIVE ConcatCats(_, _, _)
ConcatCats(cats, slices, i) ==
    IF cats = <<>> THEN <<>>
    ELSE slices[Head(cats)][i + 1] \o ConcatCats(Tail(cats), slices, i)

\* target: for i in range(num_days): for cat in CATEGORY_ORDER: ...
RECURSIVE TargetOrder(_, _, _, _)
TargetOrder(cats, slices, i, num_days) ==
    IF i >= num_days THEN <<>>
    ELSE ConcatCats(cats, slices, i) \o TargetOrder(cats, slices, i + 1, num_days)

\* the return of ensure_pages_slices_for_cat_muaware: the slices are kept
\* (the pages filtered by _filter_pages_for_cat); after the last category
\* the target order is built.  An exception of the allocator ends the run
\* (run_mode1_with_provider resets the strategies in its finally clause).
Mode1AllocReturn ==
    /\ run_pc = "alloc"
    /\ alloc_pc \in {"done", "raised"}
    /\ alloc_pc' = "idle"
    /\ alloc_cat' = NoCat
    /\ blocks_by_bucket' = <<>>
    /\ n_buckets' = 0
    /\ total_all_pages' = 0
    /\ normal_pages_created' = 0
    /\ pages_slices' = <<>>
    /\ blocks_slices' = <<>>
    /\ have0' = 0
    /\ IF alloc_pc = "raised"
       THEN /\ run_pc' = "raised"
            /\ IF run_entry = "run_mode1_with_provider"
               THEN support_bucket_strategy' = NoStrategy /\ net_bucket_strategy' = NoStrategy
               ELSE UNCHANGED <<support_bucket_strategy, net_bucket_strategy>>
            /\ UNCHANGED <<pages_slices_by_cat, blocks_slices_by_cat, run_i, target>>
       ELSE \E ps \in {[c \in DOMAIN pages_slices_by_cat \cup {alloc_cat} |->
                          IF c = alloc_cat
                          THEN [k \in DOMAIN pages_slices |->
                                   _filter_pages_for_cat(pages_slices[k], alloc_cat)]
                          ELSE pages_slices_by_cat[c]]} :
            /\ pages_slices_by_cat' = ps
            /\ blocks_slices_by_cat' =
                  [c \in DOMAIN blocks_slices_by_cat \cup {alloc_cat} |->
                      IF c = alloc_cat THEN blocks_slices ELSE blocks_slices_by_cat[c]]
            /\ UNCHANGED <<support_bucket_strategy, net_bucket_strategy>>
            /\ IF run_i + 1 < Len(CategoriesPresent(grouped))
               THEN run_i' = run_i + 1 /\ UNCHANGED <<run_pc, target>>
               ELSE /\ run_i' = 0
                    /\ run_pc' = "fill"
                    /\ target' = TargetOrder(CategoriesPresent(grouped), ps, 0,
                                             NumBuckets)
    /\ UNCHANGED <<run_entry, provider, grouped, prev_support, prev_net, blocks_by_cat_bucket>>
    /\ UNCHANGED <<asg_pc, cat_groups, buckets, later_priority, cat_byb, remain_by_cat>>
    /\ UNCHANGED <<wb, fillVars, distVars, ruleVars, buildVars, segVars, planVars>>

\* fill_blocks_to_pages(wb, day_pages, day_blocks, prog) for the next bucket
Mode1FillDay ==
    /\ run_pc = "fill"
    /\ run_entry # "run_mode_3"
    /\ run_i < Len(provider.buckets)
    /\ FillCall(ConcatCats(CategoriesPresent(grouped), pages_slices_by_cat, run_i),
                ConcatCats(CategoriesPresent(grouped), blocks_slices_by_cat, run_i))

\* after the write pass of a bucket: the next bucket, or the end of the run
\* after the last one (cleanup_unused_mu_templates, cleanup_unused_sheets,
\* and in run_mode1_with_provider the reset of the strategies)
Mode1DayDone ==
    /\ run_pc = "fill"
    /\ run_entry # "run_mode_3"
    /\ fill_pc = "done"
    /\ fill_pc' = "idle"
    /\ run_i' = run_i + 1
    /\ IF run_i + 1 < Len(provider.buckets)
       THEN UNCHANGED <<wb, run_pc, support_bucket_strategy, net_bucket_strategy>>
       ELSE /\ run_pc' = "done"
            /\ wb' = cleanup_unused_sheets(cleanup_unused_mu_templates(wb, target), target)
            /\ IF run_entry = "run_mode1_with_provider"
               THEN support_bucket_strategy' = NoStrategy /\ net_bucket_strategy' = NoStrategy
               ELSE UNCHANGED <<support_bucket_strategy, net_bucket_strategy>>
    /\ UNCHANGED <<pages_slice, blocks, page_idx, pos, bi, warned, written>>
    /\ UNCHANGED <<run_entry, provider, grouped, prev_support, prev_net, blocks_by_cat_bucket,
                   pages_slices_by_cat, blocks_slices_by_cat, target>>
    /\ UNCHANGED <<asg_pc, cat_groups, buckets, later_priority, cat_byb, remain_by_cat>>
    /\ UNCHANGED <<allocVars, distVars, ruleVars, buildVars, segVars, planVars>>

\* run_mode, mode "3", up to the first call of the allocator: both
\* strategies are reset, every category is expanded into blocks
run_mode3(gs) ==
    /\ run_pc = "idle"
    /\ run_pc' = "alloc"
    /\ run_entry' = "run_mode_3"
    /\ grouped' = prepare_from_word(gs)
    /\ support_bucket_strategy' = NoStrategy
    /\ net_bucket_strategy' = NoStrategy
    /\ blocks_by_cat_bucket' =
          [cat \in DOMAIN prepare_from_word(gs) |->
              [bix \in {0} |-> expand_blocks(TokenNamed(prepare_from_word(gs)[cat]),
                                             PER_LINE_PER_BLOCK)]]
    /\ UNCHANGED <<provider, prev_support, prev_net, pages_slices_by_cat,
                   blocks_slices_by_cat, run_i, target>>
    /\ UNCHANGED <<asg_pc, cat_groups, buckets, later_priority, cat_byb, remain_by_cat>>
    /\ UNCHANGED <<wb, fillVars, allocVars, distVars, ruleVars, buildVars, segVars, planVars>>

\* mode 3: fill_blocks_to_pages(wb, pages_by_cat[cat], blocks_by_cat_ordered[cat], prog)
Mode3FillCat ==
    /\ run_pc = "fill"
    /\ run_entry = "run_mode_3"
    /\ run_i < Len(CategoriesPresent(grouped))
    /\ FillCall(pages_slices_by_cat[CategoriesPresent(grouped)[run_i + 1]][1],
                blocks_slices_by_cat[CategoriesPresent(grouped)[run_i + 1]][1])

\* mode 3 after the write pass of a category: the next category, or
\* cleanup_unused_mu_templates and the return of target
Mode3CatDone ==
    /\ run_pc = "fill"
    /\ run_entry = "run_mode_3"
    /\ fill_pc = "done"
    /\ fill_pc' = "idle"
    /\ run_i' = run_i + 1
    /\ IF run_i + 1 < Len(CategoriesPresent(grouped))
       THEN UNCHANGED <<wb, run_pc>>
       ELSE /\ run_pc' = "done"
            /\ wb' = cleanup_unused_mu_templates(wb, target)
    /\ UNCHANGED <<pages_slice, blocks, page_idx, pos, bi, warned, written>>
    /\ UNCHANGED <<run_entry, provider, grouped, prev_support, prev_net, blocks_by_cat_bucket,
                   pages_slices_by_cat, blocks_slices_by_cat, target>>
    /\ UNCHANGED assignVars
    /\ UNCHANGED <<allocVars, distVars, ruleVars, buildVars, segVars, planVars>>

----------------------------------------------------------------------------
(* Inputs of mode 1 *)

MaxRunEntities == 2

MaxRunBuckets == 2

\* the groups a document may hold, in document order: 'GZ1 3F',
\* 'GZ2 East 5F' (amplified), 'ZC-5 East 2F', 'WZ3', 'XX1' (amplified),
\* 'XC 3F' (no category word: Other)
RunEntityPool ==
    <<Entity(NameCS_A, 0, <<NormalRow>>),
      Entity(NameCS_B, 1, <<MuRow>>),
      Entity(NameBR_B, 2, <<NormalRow>>),
      Entity(NameBR_A, 3, <<NormalRow>>),
      Entity(NameGF_A, 4, <<MuRow>>),
      Entity(NameBR_C, 5, <<NormalRow>>)>>

\* 'GZ1 3F' .. 'GZ7 3F', one reading row each, no reading >= 1000
ScenarioDocument == [k \in 1..7 |-> Entity(NameGZk(k), k - 1, <<NormalRow>>)]

\* documents: up to MaxRunEntities consecutive groups of the pool, and the
\* document of the scenario
RunDocuments ==
    {SubSeq(RunEntityPool, i, j) :
        i \in 1..Len(RunEntityPool),
        j \in 1..Len(RunEntityPool)} \ {<<>>}

RunDocumentInputs ==
    {d \in RunDocuments : Len(d) <= MaxRunEntities} \cup {ScenarioDocument}

\* rule texts by category
RunRules(text) == [c \in {"ColumnSteel", "Bracing"} |-> text]

RunBucketPool ==
    {RawBucket(RunRules(<<"*">>), TRUE, NoStrategy, [p \in {"GEN"} |-> <<"*">>], <<>>),
     RawBucket(RunRules(<<"1", "-", "3">>), TRUE, NoStrategy,
               [p \in {"GEN"} |-> <<"1", "-", "3">>], <<>>),
     RawBucket(RunRules(<<"5">>), TRUE, "floor", [p \in {"GEN"} |-> <<"1", "-", "3">>], <<>>)}

RunBucketInputs == SeqsUpTo(RunBucketPool, MaxRunBuckets) \ {<<>>}

\* support_strategy and net_strategy as the caller gives them
RunStrategyInputs ==
    {<<"number", "number">>, <<"floor", "floor">>, <<" Floor ", "NUMBER">>,
     <<"auto", "number">>, <<"number", "auto">>}

\* the documents of mode 3: those without a group of category Other
Mode3Documents == {d \in RunDocumentInputs : "Other" \notin DOMAIN prepare_from_word(d)}

RunProviders ==
    {Mode1ConfigProvider(bs, st[1], st[2], later, auto) :
        bs \in RunBucketInputs, st \in RunStrategyInputs, later \in BOOLEAN, auto \in BOOLEAN}

\* the template workbook: the sheet and the mu template of the four steel
\* categories
RunWorkbook ==
    [t \in {Title(c, mu, 0) : c \in {"ColumnSteel", "BeamSteel", "Bracing", "GridFrame"},
                              mu \in BOOLEAN} |-> TemplateSheet]

\* the names of the categories, which are the titles of their first sheets
CategorySheets(cats) == [k \in DOMAIN cats |-> Title(cats[k], FALSE, 0)]

\* export_single_day_noninteractive after run_mode("3", ...) has returned
\* used_pages: cleanup_unused_sheets(wb, categories_present)
ExportSingleDayCleanup ==
    /\ run_pc = "done"
    /\ run_entry = "run_mode_3"
    /\ run_pc' = "exported"
    /\ run_entry' = "export_single_day_noninteractive"
    /\ wb' = cleanup_unused_sheets(wb, CategorySheets(CategoriesPresent(grouped)))
    /\ UNCHANGED <<provider, grouped, prev_support, prev_net, blocks_by_cat_bucket,
                   pages_slices_by_cat, blocks_slices_by_cat, run_i, target>>
    /\ UNCHANGED <<assignVars, fillVars, allocVars, distVars, ruleVars, buildVars, segVars,
                   planVars>>

InitMode1 ==
    /\ wb = RunWorkbook
    /\ FillIdle
    /\ AllocIdle
    /\ DistIdle
    /\ RuleIdle
    /\ AssignIdle
    /\ RunIdle
    /\ BuildIdle
    /\ SegIdle
    /\ PlanIdle

NextMode1 ==
    \/ (run_pc = "idle" /\
        \E gs \in RunDocumentInputs, prov \in RunProviders : run_mode1_with_provider(gs, prov))
    \/ (run_pc = "idle" /\
        \E gs \in RunDocumentInputs, prov \in RunProviders :
            export_mode1_noninteractive(gs, prov))
    \/ (run_pc = "idle" /\ \E gs \in Mode3Documents : run_mode3(gs))
    \/ (run_pc = "assign" /\ \E ok \in BOOLEAN : Mode1Assign(ok))
    \/ Mode1AllocCall
    \/ Mode1AllocBucket
    \/ Mode1AllocReturn
    \/ Mode1FillDay
    \/ (run_pc = "fill" /\ FillMismatch)
    \/ (run_pc = "fill" /\ FillWrite)
    \/ (run_pc = "fill" /\ FillExit)
    \/ Mode1DayDone
    \/ Mode3FillCat
    \/ Mode3CatDone
    \/ ExportSingleDayCleanup

SpecMode1 == InitMode1 /\ [][NextMode1]_vars

----------------------------------------------------------------------------
(* Leftover disposition in mode 1 *)

\* the groups of the run that sit in no bucket
Unassigned ==
    UNION {{<<cat, k>> : k \in DOMAIN remain_by_cat[cat]} : cat \in DOMAIN remain_by_cat}

\* C11: a run of the mode-1 pipeline that completes normally leaves no
\* group outside every bucket: the leftover groups were merged into a
\* bucket, or the run raised.
C11_LeftoversDisposed ==
    run_pc = "done" => \A cat \in DOMAIN remain_by_cat : remain_by_cat[cat] = <<>>

\* the run of export_mode1_noninteractive that completes with a leftover group
C11_Dropped ==
    /\ run_pc = "done"
    /\ run_entry = "export_mode1_noninteractive"
    /\ ~provider.auto_merge_rest
    /\ Unassigned # {}

----------------------------------------------------------------------------
(* The strategy in force in mode 1 *)

\* the GridFrame strategies of the buckets of the run
NetStrategies == {provider.buckets[k].net_strategy :
                    k \in {j \in DOMAIN provider.buckets : provider.buckets[j].has_net}}

\* C12: when assign_by_buckets is about to match the groups of a run, the
\* Bracing strategy in force is the one the run was configured with, and
\* all buckets of the run match GridFrame groups by one strategy.
C12_ConfiguredStrategyInForce ==
    (run_pc = "assign" /\ provider.support_strategy \in {"number", "floor"})
        => /\ StrategyOrNumber(support_bucket_strategy) = provider.support_strategy
           /\ Cardinality(NetStrategies) <= 1

\* a run configured by floor whose Bracing groups were matched by number
C12_FloorIgnored ==
    /\ run_pc = "alloc"
    /\ run_entry = "run_mode1_with_provider"
    /\ provider.support_strategy = "floor"
    /\ "Bracing" \in DOMAIN remain_by_cat
    /\ remain_by_cat["Bracing"] # <<>>

----------------------------------------------------------------------------
(* The block builder and the stream tag on their own *)

\* blocks = expand_blocks(groups)
ExpandBlocks(groups) ==
    /\ bld_pc = "idle"
    /\ bld_pc' = "built"
    /\ bld_groups' = groups
    /\ bld_blocks' = expand_blocks(groups, PER_LINE_PER_BLOCK)
    /\ bld_tags' = <<>>
    /\ UNCHANGED notBuild

\* one iteration of split_mu_blocks: (mu if _is_mu_block(b) else normal).append(b)
SplitBlock ==
    /\ bld_pc = "built"
    /\ Len(bld_tags) < Len(bld_blocks)
    /\ bld_tags' = Append(bld_tags, _is_mu_block(bld_blocks[Len(bld_tags) + 1]))
    /\ bld_pc' = IF Len(bld_tags) + 1 = Len(bld_blocks) THEN "split" ELSE "built"
    /\ UNCHANGED <<bld_groups, bld_blocks>>
    /\ UNCHANGED notBuild

MaxGroups == 2

MaxGroupRows == 6

\* lines of a document as groups_from_your_rows stores them: 1 to 4
\* readings and the average
BuildRowPool ==
    <<ReadingRow(<<"85">>, "85"),
      ReadingRow(<<"12345", "85">>, "999"),
      ReadingRow(<<"999", "0999", "85", "85">>, "999.5"),
      ReadingRow(<<"85">>, "12345"),
      ReadingRow(<<"-1234">>, "85"),
      ReadingRow(<<"1,234.5">>, ""),
      ReadingRow(<<"1234um", "85um">>, "85"),
      ReadingRow(<<"">>, ""),
      ReadingRow(<<"1000">>, "999"),
      ReadingRow(<<"1.2.3", "999.5">>, "1000")>>

\* where in the pool the lines of a group start
BuildOffsets == {0, 4, 7}

\* a group of n lines, taken from the pool in order from line off on
BuildGroup(name, n, off) ==
    [name |-> name,
     data |-> [k \in 1..n |-> BuildRowPool[((k - 1 + off) % Len(BuildRowPool)) + 1]]]

BuildGroupPool ==
    {BuildGroup(IF off = 0 THEN NameGZ ELSE NameGL, n, off) :
        n \in 1..MaxGroupRows, off \in BuildOffsets}

BuildInputs == SeqsUpTo(BuildGroupPool, MaxGroups) \ {<<>>}

InitBlocks ==
    /\ wb = <<>>
    /\ FillIdle
    /\ AllocIdle
    /\ DistIdle
    /\ RuleIdle
    /\ AssignIdle
    /\ RunIdle
    /\ BuildIdle
    /\ SegIdle
    /\ PlanIdle

NextBlocks ==
    \/ (bld_pc = "idle" /\ \E groups \in BuildInputs : ExpandBlocks(groups))
    \/ SplitBlock

SpecBlocks == InitBlocks /\ [][NextBlocks]_vars

\* the number of blocks of the groups before group gi
RECURSIVE BlocksBefore(_, _)
BlocksBefore(groups, gi) ==
    IF gi <= 1 THEN 0
    ELSE BlocksBefore(groups, gi - 1)
            + CeilDiv(Len(groups[gi - 1].data), PER_LINE_PER_BLOCK)

\* C13: every block of expand_blocks has 5 rows of 9 cells; a group of n
\* rows gives ceil(n/5) blocks of its name, in the order of the groups; the
\* rows of a group fill its blocks in order and the rows that are missing in
\* its last block are rows of 9 "/".
C13_BlocksShape ==
    bld_pc # "idle" =>
        /\ Len(bld_blocks) = BlocksBefore(bld_groups, Len(bld_groups) + 1)
        /\ \A b \in DOMAIN bld_blocks :
              /\ Len(bld_blocks[b].data) = 5
              /\ \A r \in DOMAIN bld_blocks[b].data : Len(bld_blocks[b].data[r]) = 9
        /\ \A gi \in DOMAIN bld_groups :
              \A j \in 1..CeilDiv(Len(bld_groups[gi].data), 5) :
                 \E b \in {BlocksBefore(bld_groups, gi) + j} :
                    /\ b \in DOMAIN bld_blocks
                    /\ bld_blocks[b].name = bld_groups[gi].name
                    /\ \A r \in 1..5 :
                          r \in DOMAIN bld_blocks[b].data /\
                          bld_blocks[b].data[r] =
                             IF (j - 1) * 5 + r <= Len(bld_groups[gi].data)
                             THEN bld_groups[gi].data[(j - 1) * 5 + r]
                             ELSE [c \in 1..9 |-> "/"]

\* C13 witness: two groups, the first of 6 rows (two blocks, the second
\* with 4 padding rows), built into 3 blocks or more
C13_Witness ==
    /\ bld_pc = "built"
    /\ Len(bld_groups) = 2
    /\ Len(bld_groups[1].data) = 6
    /\ bld_groups[1].name # bld_groups[2].name
    /\ Len(bld_blocks) >= 3

\* the text of a cell without its sign
Unsigned(s) == IF s # <<>> /\ Head(s) \in {"-", "+"} THEN Tail(s) ELSE s

\* a reading that is a pure digit string of 4 digits or more, or a number
\* whose magnitude is 1000 or more
IsLargeReading(v) ==
    \E s \in {Chars(v)} :
        \/ (Len(s) >= 4 /\ \A k \in DOMAIN s : s[k] \in Digits)
        \/ \E u \in {NoCommas(Unsigned(s))} :
              /\ u # <<>>
              /\ \A k \in DOMAIN u : u[k] \in Digits \cup {"."}
              /\ FloatOk(u)
              /\ IntPart(u, 0) >= 1000

\* C14: a block is tagged amplified exactly when one of the first 8 cells
\* of one of its rows is a large reading; placeholders and the 9th cell
\* never count.
C14_TagIffLarge ==
    \A i \in DOMAIN bld_tags :
        bld_tags[i] <=>
            \E r \in DOMAIN bld_blocks[i].data :
                \E c \in 1..8 :
                    /\ bld_blocks[i].data[r][c] # "/"
                    /\ IsLargeReading(bld_blocks[i].data[r][c])

\* a block that holds the reading -1234 and is tagged normal
C14_NegativeNotTagged ==
    \E i \in DOMAIN bld_tags :
        /\ ~bld_tags[i]
        /\ \E r \in DOMAIN bld_blocks[i].data : bld_blocks[i].data[r][1] = "-1234"

----------------------------------------------------------------------------
(* The end-to-end scenario *)

\* the run of mode 3 on the 7 groups 'GZ1 3F' .. 'GZ7 3F' has returned
ScenarioDone ==
    /\ run_pc = "done"
    /\ run_entry = "run_mode_3"
    /\ grouped = prepare_from_word(ScenarioDocument)

\* the cells of the pages of the run that hold a block
BlockWrites ==
    {<<k, p>> \in (DOMAIN target) \X (0..(BLOCKS_PER_SHEET - 1)) :
        wb[target[k]][p].kind = "block"}

\* the cells of the pages of the run that hold the placeholder block
Placeholders ==
    {<<k, p>> \in (DOMAIN target) \X (0..(BLOCKS_PER_SHEET - 1)) :
        wb[target[k]][p].kind = "slash"}

\* C15 as stated: the 7 groups give 2 blocks, 1 page is requested, and the
\* writer puts 2 blocks at positions 0 and 1 of it, positions 2 to 4 being
\* placeholders.
C15_Original ==
    ScenarioDone =>
        /\ Len(blocks_by_cat_bucket["ColumnSteel"][0]) = 2
        /\ Len(target) = 1
        /\ BlockWrites = {<<1, 0>>, <<1, 1>>}
        /\ Placeholders = {<<1, 2>>, <<1, 3>>, <<1, 4>>}

\* C15: the 7 groups give 7 blocks (one per group, 1 row and 4 padding
\* rows each), all normal; 2 pages are requested; the writer puts 7 blocks,
\* at positions 0 to 4 of the first page and 0 and 1 of the second, whose
\* positions 2 to 4 are placeholders.
C15_SevenBlocks ==
    ScenarioDone =>
        /\ Len(blocks_by_cat_bucket["ColumnSteel"][0]) = 7
        /\ \A k \in 1..7 : ~_is_mu_block(blocks_by_cat_bucket["ColumnSteel"][0][k])
        /\ target = <<Title("ColumnSteel", FALSE, 0), Title("ColumnSteel", FALSE, 2)>>
        /\ BlockWrites = ({1} \X (0..4)) \cup {<<2, 0>>, <<2, 1>>}
        /\ Placeholders = {<<2, 2>>, <<2, 3>>, <<2, 4>>}
        /\ \A k \in 1..7 :
              wb[target[((k - 1) \div 5) + 1]][(k - 1) % 5].block =
                 blocks_by_cat_bucket["ColumnSteel"][0][k]

\* C15 witness: the scenario has run to its end and wrote on its pages
C15_Witness == ScenarioDone /\ BlockWrites # {} /\ ~warned

----------------------------------------------------------------------------
(* Invalid strategy values *)

\* the run was configured with a strategy that is neither number nor floor
InvalidStrategyConfigured ==
    /\ run_entry \in {"run_mode1_with_provider", "export_mode1_noninteractive"}
    /\ \/ set_strategy_raises(provider.support_strategy)
       \/ set_strategy_raises(provider.net_strategy)

\* C16: a run configured with an invalid strategy raises at once: it never
\* reaches the assignment of the groups nor the allocation of pages.
C16_InvalidStrategyRaised ==
    InvalidStrategyConfigured => (run_pc = "raised" /\ asg_pc = "idle" /\ alloc_pc = "idle")

\* a run of run_mode1_with_provider configured with the strategy "auto"
\* that has written its pages and returned
C16_InvalidCompleted ==
    /\ InvalidStrategyConfigured
    /\ run_pc = "done"
    /\ target # <<>>

----------------------------------------------------------------------------
(* The write pass on the slices of the allocator *)

\* a write pass of a run on slices of ensure_pages_slices_for_cat_muaware
\* has ended
RunPassDone ==
    /\ run_pc = "fill"
    /\ run_entry \in {"run_mode1_with_provider", "export_mode1_noninteractive", "run_mode_3"}
    /\ fill_pc = "done"

\* the cells of the pages of the pass that hold a block
PassWrites ==
    {<<k, p>> \in (DOMAIN pages_slice) \X (0..(BLOCKS_PER_SHEET - 1)) :
        wb[pages_slice[k]][p].kind = "block"}

\* C17: at the end of a write pass on the page slice and the block slice
\* that the allocator returned for a bucket (of one category, or of all
\* categories concatenated in category order) every block has been written,
\* each once, every page of the slice holds a block of the pass, and no
\* block is left over.
C17_SlicesAgree ==
    RunPassDone =>
        /\ bi = Len(blocks)
        /\ written = 0..(Len(blocks) - 1)
        /\ Cardinality(PassWrites) = Len(blocks)
        /\ \A i \in DOMAIN blocks :
              Cardinality({w \in PassWrites : wb[pages_slice[w[1]]][w[2]].block = blocks[i]})
                 = Cardinality({j \in DOMAIN blocks : blocks[j] = blocks[i]})
        /\ \A k \in DOMAIN pages_slice : \E p \in 0..(BLOCKS_PER_SHEET - 1) : <<k, p>> \in PassWrites
        /\ ~warned

\* C17 witness: a pass of mode 1 over two pages has ended; the guard closed
\* the first page early because the next block was of another stream or
\* category
C17_Witness ==
    /\ RunPassDone
    /\ run_entry # "run_mode_3"
    /\ Len(pages_slice) = 2
    /\ Len(blocks) = 2
    /\ wb[pages_slice[1]][1].kind = "slash"
    /\ _is_mu_title(pages_slice[2])

----------------------------------------------------------------------------
(* Mode 4: the pages of mode4_run *)

\* ensure_total_pages_from raises when it has to clone and the template
\* sheet is missing
ensure_total_pages_from_raises(w, tpl_name, new_base, total_needed) ==
    total_needed > Len(ExistingPages(w, new_base)) /\ Title(tpl_name, FALSE, 0) \notin DOMAIN w

\* the names ensure_total_pages_from adds: new_base, new_base(2), ...
NewPagesFrom(w, new_base, total_needed) ==
    LET have == Len(ExistingPages(w, new_base))
    IN [k \in 1..Max(0, total_needed - have) |->
           IF have + k > 1 THEN Title(new_base, FALSE, have + k) ELSE Title(new_base, FALSE, 0)]

\* ensure_total_pages_from: the returned list of names, every existing page
\* of new_base included
ensure_total_pages_from(w, tpl_name, new_base, total_needed) ==
    LET names == ExistingPages(w, new_base)
    IN names \o SelectSeq(NewPagesFrom(w, new_base, total_needed),
                          LAMBDA nm : nm \notin Range(names))

\* ensure_total_pages_from: the workbook after the call
ensure_total_pages_from_wb(w, tpl_name, new_base, total_needed) ==
    CloneAll(w, Title(tpl_name, FALSE, 0), NewPagesFrom(w, new_base, total_needed))

\* page_need_each of ensure_pages_slices_for_cat, as a sequence
PageNeedEach(bbb) == [k \in 1..Cardinality(DOMAIN bbb) |-> pages_needed(bbb[k - 1])]

\* the sum of the first n numbers of a sequence
RECURSIVE SumFirst(_, _)
SumFirst(s, n) == IF n = 0 THEN 0 ELSE SumFirst(s, n - 1) + s[n]

\* ensure_pages_slices_for_cat: the slices pages_all[p:p + n], one per bucket
ensure_pages_slices_for_cat(w, cat, bbb) ==
    LET need == PageNeedEach(bbb)
        total_need == SumFirst(need, Len(need))
        pages_all == IF cat = "Other"
                     THEN ensure_total_pages_from(w, "ColumnSteel", "Other", total_need)
                     ELSE ensure_total_pages(w, cat, total_need)
    IN IF total_need = 0 THEN [k \in 1..Len(need) |-> <<>>]
       ELSE [k \in 1..Len(need) |->
                SubSeq(pages_all, SumFirst(need, k - 1) + 1,
                       Min(Len(pages_all), SumFirst(need, k - 1) + need[k]))]

\* ensure_pages_slices_for_cat: the workbook after the call
ensure_pages_slices_for_cat_wb(w, cat, bbb) ==
    LET total_need == SumFirst(PageNeedEach(bbb), Cardinality(DOMAIN bbb))
    IN IF total_need = 0 THEN w
       ELSE IF cat = "Other"
       THEN ensure_total_pages_from_wb(w, "ColumnSteel", "Other", total_need)
       ELSE ensure_total_pages_wb(w, cat, total_need)

\* for cat in cats_in_use: pages_slices_by_cat[cat] = ensure_pages_slices_for_cat(...)
\* gives the workbook and the slices after the categories cats
RECURSIVE Mode4Slices(_, _, _, _)
Mode4Slices(w, cats, bbcb, acc) ==
    IF cats = <<>> THEN [wb |-> w, slices |-> acc]
    ELSE Mode4Slices(ensure_pages_slices_for_cat_wb(w, Head(cats), bbcb[Head(cats)]),
                     Tail(cats), bbcb,
                     [c \in DOMAIN acc \cup {Head(cats)} |->
                         IF c = Head(cats)
                         THEN ensure_pages_slices_for_cat(w, Head(cats), bbcb[Head(cats)])
                         ELSE acc[c]])

\* cats_in_use = [c for c in CATEGORY_ORDER if blocks_by_cat_bucket[c]]
CatsInUse(bbcb) == SelectSeq(CATEGORY_ORDER, LAMBDA c : c \in DOMAIN bbcb /\ DOMAIN bbcb[c] # {})

\* mode4_run from the allocation of the pages on; bbcb is blocks_by_cat_bucket
\* as the date distribution left it
Mode4Pages(bbcb) ==
    /\ run_pc = "idle"
    /\ run_entry' = "mode4_run"
    /\ blocks_by_cat_bucket' = bbcb
    /\ \E res \in {Mode4Slices(wb, CatsInUse(bbcb), bbcb, <<>>)} :
          /\ wb' = res.wb
          /\ pages_slices_by_cat' = res.slices
          /\ target' = TargetOrder(CatsInUse(bbcb), res.slices, 0,
                                   Cardinality(DOMAIN bbcb["ColumnSteel"]))
    /\ run_pc' = "fill"
    /\ run_i' = 0
    /\ UNCHANGED <<provider, grouped, prev_support, prev_net, blocks_slices_by_cat>>
    /\ UNCHANGED <<assignVars, fillVars, allocVars, distVars, ruleVars, buildVars, segVars, planVars>>

\* the bucket and the category of the next call of fill_blocks_to_pages:
\* for i in range(len(buckets)): for cat in CATEGORY_ORDER: ...
Mode4Bucket == run_i \div Len(CatsInUse(blocks_by_cat_bucket))

Mode4Cat == CatsInUse(blocks_by_cat_bucket)[(run_i % Len(CatsInUse(blocks_by_cat_bucket))) + 1]

\* fill_blocks_to_pages(wb, pages, blocks, prog) of mode4_run
Mode4FillPair ==
    /\ run_pc = "fill"
    /\ run_entry = "mode4_run"
    /\ FillCall(pages_slices_by_cat[Mode4Cat][Mode4Bucket + 1],
                blocks_by_cat_bucket[Mode4Cat][Mode4Bucket])

\* after the write pass of a (bucket, category) pair: the next pair, or the
\* return of target
Mode4PairDone ==
    /\ run_pc = "fill"
    /\ run_entry = "mode4_run"
    /\ fill_pc = "done"
    /\ fill_pc' = "idle"
    /\ run_i' = run_i + 1
    /\ run_pc' = IF run_i + 1 < Len(CatsInUse(blocks_by_cat_bucket))
                                   * Cardinality(DOMAIN blocks_by_cat_bucket["ColumnSteel"])
                 THEN "fill" ELSE "done"
    /\ UNCHANGED <<wb, pages_slice, blocks, page_idx, pos, bi, warned, written>>
    /\ UNCHANGED <<run_entry, provider, grouped, prev_support, prev_net, blocks_by_cat_bucket,
                   pages_slices_by_cat, blocks_slices_by_cat, target>>
    /\ UNCHANGED <<assignVars, allocVars, distVars, ruleVars, buildVars, segVars, planVars>>

\* block lists of a column bucket: normal blocks followed by amplified
\* blocks, and one list in which the amplified block comes first
Mode4ColumnLists ==
    {TwoRuns(AllocN, a, AllocM, b) : a \in {0, 1, MaxAllocBlocks - 1}, b \in {0, 1}}
        \cup {<<AllocM, AllocN>>}

\* block lists of a bracing bucket
Mode4BracingLists == {<<>>, <<BlockOf(NameTokens(NameBR_A), NormalRow)>>}

\* blocks_by_cat_bucket: every category of CATEGORY_ORDER has an entry for
\* every bucket
Mode4Inputs ==
    UNION {{[cat \in Range(CATEGORY_ORDER) |->
               [i \in 0..(n - 1) |->
                   IF cat = "ColumnSteel" THEN cl[i + 1]
                   ELSE IF cat = "Bracing" THEN bl[i + 1] ELSE <<>>]] :
             cl \in [1..n -> Mode4ColumnLists], bl \in [1..n -> Mode4BracingLists]} :
           n \in 1..MaxAllocBuckets}

InitMode4 ==
    /\ wb = RunWorkbook
    /\ FillIdle
    /\ AllocIdle
    /\ DistIdle
    /\ RuleIdle
    /\ AssignIdle
    /\ RunIdle
    /\ BuildIdle
    /\ SegIdle
    /\ PlanIdle

NextMode4 ==
    \/ (run_pc = "idle" /\ \E bbcb \in Mode4Inputs : Mode4Pages(bbcb))
    \/ Mode4FillPair
    \/ (run_pc = "fill" /\ FillMismatch)
    \/ (run_pc = "fill" /\ FillWrite)
    \/ (run_pc = "fill" /\ FillExit)
    \/ Mode4PairDone

SpecMode4 == InitMode4 /\ [][NextMode4]_vars

\* C18: every write pass of mode 4 writes every block of its (category,
\* date) bucket, whatever the mix of normal and amplified blocks.
C18_AllBlocksWritten ==
    (run_entry = "mode4_run" /\ fill_pc = "done") => written = 0..(Len(blocks) - 1)

\* a pass of mode 4 that ended without writing the amplified block it held
C18_AmplifiedLost ==
    /\ run_entry = "mode4_run"
    /\ fill_pc = "done"
    /\ \E k \in DOMAIN blocks : _is_mu_block(blocks[k]) /\ (k - 1) \notin written

----------------------------------------------------------------------------
(* Mode 2 on a document of category Other *)

\* the special floors are read as numbers like any other floor
segment_index_NoSpecial(floor, breaks) ==
    IF \E i \in DOMAIN breaks : floor <= breaks[i]
    THEN (CHOOSE i \in DOMAIN breaks :
             floor <= breaks[i] /\ \A j \in DOMAIN breaks : floor <= breaks[j] => i <= j) - 1
    ELSE Len(breaks)

\* segment_index(floor, breaks)
segment_index(floor, breaks) ==
    IF breaks = <<>>
    THEN IF floor = JF_VAL THEN 1 ELSE IF floor >= WM_VAL THEN 2 ELSE 0
    ELSE IF floor = JF_VAL THEN Len(breaks)
    ELSE IF floor >= WM_VAL THEN Len(breaks) + 1
    ELSE IF \E i \in DOMAIN breaks : floor <= breaks[i]
    THEN (CHOOSE i \in DOMAIN breaks :
             floor <= breaks[i] /\ \A j \in DOMAIN breaks : floor <= breaks[j] => i <= j) - 1
    ELSE Len(breaks)

\* byseg[cat]: the blocks of a category by segment, in input order; with
\* sub-mode 3 there are no segments and all blocks are paged at once
BySeg(blks, sub, breaks) ==
    IF sub = "3" THEN [seg \in {0} |-> blks]
    ELSE [seg \in {segment_index(floor_of(blks[k].name), breaks) : k \in DOMAIN blks} |->
             SelectSeq(blks, LAMBDA b : segment_index(floor_of(b.name), breaks) = seg)]

\* sorted(seg_dict.keys())
RECURSIVE SortedKeys(_)
SortedKeys(S) ==
    IF S = {} THEN <<>>
    ELSE LET m == CHOOSE x \in S : \A y \in S : x <= y
         IN <<m>> \o SortedKeys(S \ {m})

\* run_mode, mode "2", on a document whose groups are all of category
\* Other, up to the paging of the first segment
run_mode2(gs, sub, breaks) ==
    /\ run_pc = "idle"
    /\ run_pc' = "alloc"
    /\ run_entry' = "run_mode_2"
    /\ grouped' = prepare_from_word(gs)
    /\ support_bucket_strategy' = NoStrategy
    /\ net_bucket_strategy' = NoStrategy
    /\ blocks_by_cat_bucket' =
          [cat \in DOMAIN prepare_from_word(gs) |->
              BySeg(expand_blocks(prepare_from_word(gs)[cat], PER_LINE_PER_BLOCK), sub, breaks)]
    /\ pages_slices_by_cat' = [cat \in DOMAIN prepare_from_word(gs) |-> <<>>]
    /\ blocks_slices_by_cat' = [cat \in DOMAIN prepare_from_word(gs) |-> <<>>]
    /\ run_i' = 0
    /\ UNCHANGED <<provider, prev_support, prev_net, target>>
    /\ UNCHANGED <<asg_pc, cat_groups, buckets, later_priority, cat_byb, remain_by_cat>>
    /\ UNCHANGED <<wb, fillVars, allocVars, distVars, ruleVars, buildVars, segVars, planVars>>

\* the segments of category Other in paging order
OtherSegs == SortedKeys(DOMAIN blocks_by_cat_bucket["Other"])

\* mode 2, category Other, one segment:
\* pages_batch = ensure_total_pages_from(wb, column sheet, "Other", need)
Mode2OtherSegment ==
    /\ run_pc = "alloc"
    /\ run_entry = "run_mode_2"
    /\ run_i < Len(OtherSegs)
    /\ \E seg_blocks \in {blocks_by_cat_bucket["Other"][OtherSegs[run_i + 1]]} :
       \E need \in {pages_needed(seg_blocks)} :
          IF need # 0 /\ ensure_total_pages_from_raises(wb, "ColumnSteel", "Other", need)
          THEN /\ run_pc' = "raised"
               /\ UNCHANGED <<wb, pages_slices_by_cat, blocks_slices_by_cat, run_i>>
          ELSE /\ wb' = IF need = 0 THEN wb
                        ELSE ensure_total_pages_from_wb(wb, "ColumnSteel", "Other", need)
               /\ pages_slices_by_cat' =
                     [pages_slices_by_cat EXCEPT !["Other"] =
                         Append(@, IF need = 0 THEN <<>>
                                   ELSE ensure_total_pages_from(wb, "ColumnSteel", "Other", need))]
               /\ blocks_slices_by_cat' =
                     [blocks_slices_by_cat EXCEPT !["Other"] =
                         Append(@, [k \in DOMAIN seg_blocks |->
                                      [seg_blocks[k] EXCEPT !.name = NameTokens(@)]])]
               /\ IF run_i + 1 < Len(OtherSegs)
                  THEN run_i' = run_i + 1 /\ UNCHANGED run_pc
                  ELSE run_i' = 0 /\ run_pc' = "fill"
    /\ UNCHANGED <<run_entry, provider, grouped, prev_support, prev_net, blocks_by_cat_bucket,
                   target>>
    /\ UNCHANGED <<assignVars, fillVars, allocVars, distVars, ruleVars, buildVars, segVars, planVars>>

\* pairs: the (pages, blocks) of the segments whose page list is not empty
Mode2Pairs ==
    SelectSeq([k \in DOMAIN pages_slices_by_cat["Other"] |->
                  [pages |-> pages_slices_by_cat["Other"][k],
                   blocks |-> blocks_slices_by_cat["Other"][k]]],
              LAMBDA pr : pr.pages # <<>>)

\* for pages, blocks_piece in pairs: fill_blocks_to_pages(wb, pages, blocks_piece, prog)
Mode2FillPair ==
    /\ run_pc = "fill"
    /\ run_entry = "run_mode_2"
    /\ run_i < Len(Mode2Pairs)
    /\ FillCall(Mode2Pairs[run_i + 1].pages, Mode2Pairs[run_i + 1].blocks)

\* after the write pass of a pair: target += pages; the next pair, or
\* cleanup_unused_mu_templates and the return of target
Mode2PairDone ==
    /\ run_pc = "fill"
    /\ run_entry = "run_mode_2"
    /\ fill_pc = "done"
    /\ fill_pc' = "idle"
    /\ run_i' = run_i + 1
    /\ target' = target \o pages_slice
    /\ IF run_i + 1 < Len(Mode2Pairs)
       THEN UNCHANGED <<wb, run_pc>>
       ELSE /\ run_pc' = "done"
            /\ wb' = cleanup_unused_mu_templates(wb, target \o pages_slice)
    /\ UNCHANGED <<pages_slice, blocks, page_idx, pos, bi, warned, written>>
    /\ UNCHANGED <<run_entry, provider, grouped, prev_support, prev_net, blocks_by_cat_bucket,
                   pages_slices_by_cat, blocks_slices_by_cat>>
    /\ UNCHANGED <<assignVars, allocVars, distVars, ruleVars, buildVars, segVars, planVars>>

\* groups of category Other: 'XC 3F', 'XC 5F' (amplified), 'XC WM'
OtherEntityPool ==
    {Entity(NameBR_C, 0, <<NormalRow>>),
     Entity(NameOT_A, 1, <<MuRow>>),
     Entity(NameOT_B, 2, <<NormalRow>>)}

Mode2Documents == SeqsUpTo(OtherEntityPool, MaxRunEntities) \ {<<>>}

\* the floor breaks the user gives
Mode2Breaks == {<<>>, <<4>>}

InitMode2 ==
    /\ wb = RunWorkbook
    /\ FillIdle
    /\ AllocIdle
    /\ DistIdle
    /\ RuleIdle
    /\ AssignIdle
    /\ RunIdle
    /\ BuildIdle
    /\ SegIdle
    /\ PlanIdle

NextMode2 ==
    \/ (run_pc = "idle" /\
        \E gs \in Mode2Documents, sub \in {"1", "2", "3"}, breaks \in Mode2Breaks :
            run_mode2(gs, sub, breaks))
    \/ Mode2OtherSegment
    \/ Mode2FillPair
    \/ (run_pc = "fill" /\ FillMismatch)
    \/ (run_pc = "fill" /\ FillWrite)
    \/ (run_pc = "fill" /\ FillExit)
    \/ Mode2PairDone

SpecMode2 == InitMode2 /\ [][NextMode2]_vars

\* C19: the page slices handed to different buckets or segments of a run
\* have no page in common, in every category.
C19_SlicesDisjoint ==
    \A cat \in DOMAIN pages_slices_by_cat :
        \A i, j \in DOMAIN pages_slices_by_cat[cat] :
            i # j => Range(pages_slices_by_cat[cat][i]) \cap Range(pages_slices_by_cat[cat][j]) = {}

\* a page of category Other that held the block of one segment has been
\* written again with the block of another segment
C19_Overwritten ==
    /\ run_entry = "run_mode_2"
    /\ run_pc = "done"
    /\ Len(Mode2Pairs) = 2
    /\ Mode2Pairs[1].pages = Mode2Pairs[2].pages
    /\ \A t \in Range(target) : Mode2Pairs[1].blocks[1] \notin BlocksOn(t)

----------------------------------------------------------------------------
(* The shape of one write pass *)

\* the pages of the slice are different sheets, as the slices of the
\* allocators are
DistinctPages == \A i, j \in DOMAIN pages_slice : pages_slice[i] = pages_slice[j] => i = j

\* the blocks on a sheet from position p on, in position order
RECURSIVE SheetBlocks(_, _)
SheetBlocks(ws, p) ==
    IF p >= BLOCKS_PER_SHEET THEN <<>>
    ELSE (IF ws[p].kind = "block" THEN <<ws[p].block>> ELSE <<>>) \o SheetBlocks(ws, p + 1)

\* the blocks on the pages of the slice from page k on, page after page
RECURSIVE PassBlocks(_)
PassBlocks(k) ==
    IF k > Len(pages_slice) THEN <<>>
    ELSE SheetBlocks(wb[pages_slice[k]], 0) \o PassBlocks(k + 1)

\* the loop has left page k behind, or the pass has ended
PageClosed(k) == k <= page_idx \/ fill_pc = "done"

\* C20: during and after a write pass over different pages the blocks on
\* the pages, read page after page and position after position, are the
\* first bi blocks of the input in input order (a prefix, nothing skipped,
\* no position written twice); on every page the blocks occupy positions
\* 0..k-1; and a page the pass has left with a block on it holds a block
\* or the placeholder block at each of its 5 positions.
C20_PassShape ==
    (fill_pc \in {"loop", "done"} /\ DistinctPages) =>
        /\ written = 0..(bi - 1)
        /\ bi <= Len(blocks)
        /\ PassBlocks(1) = SubSeq(blocks, 1, bi)
        /\ \A k \in DOMAIN pages_slice :
              \E ws \in {wb[pages_slice[k]]} :
                 /\ \A p \in 1..(BLOCKS_PER_SHEET - 1) :
                       ws[p].kind = "block" => ws[p - 1].kind = "block"
                 /\ Len(SheetBlocks(ws, 0)) <= 5
                 /\ (PageClosed(k) /\ SheetBlocks(ws, 0) # <<>>) =>
                       \A p \in 0..(BLOCKS_PER_SHEET - 1) : ws[p].kind \in {"block", "slash"}

\* C20 witness: a pass over two different pages has ended; the first page
\* is full and the second holds one block and placeholders
C20_Witness ==
    /\ fill_pc = "done"
    /\ DistinctPages
    /\ Len(pages_slice) = 2
    /\ Len(SheetBlocks(wb[pages_slice[1]], 0)) = 5
    /\ wb[pages_slice[2]][0].kind = "block"
    /\ wb[pages_slice[2]][1].kind = "slash"
    /\ wb[pages_slice[2]][4].kind = "slash"

----------------------------------------------------------------------------
(* The write pass as a state machine over (page_idx, pos) *)

\* the body of the while loop and the code after it run to completion once
\* fill_blocks_to_pages has been entered: nothing in them waits
SpecFillLive == SpecFill /\ WF_vars(FillMismatch \/ FillWrite \/ FillExit)

\* the guard of the current iteration refuses the current block
LoopMismatch == InLoop /\ STRICT_CROSS_CAT_GUARD /\ Mismatch(CurTitle, CurBlock)

\* one step of the pass moves the cursor as the state machine says
PassStep ==
    /\ page_idx' >= page_idx
    /\ LoopMismatch =>
          /\ page_idx' = page_idx + 1
          /\ pos' = 0
          /\ bi' = bi
    /\ (InLoop /\ ~LoopMismatch) =>
          /\ bi' = bi + 1
          /\ IF pos + 1 = BLOCKS_PER_SHEET
             THEN page_idx' = page_idx + 1 /\ pos' = 0
             ELSE page_idx' = page_idx /\ pos' = pos + 1
    /\ (fill_pc = "loop" /\ ~InLoop) =>
          /\ fill_pc' = "done"
          /\ <<page_idx, pos, bi>>' = <<page_idx, pos, bi>>

\* C21: the write pass is the state machine over (page_idx, pos): pos is in
\* 0..4 whenever a block is examined, page_idx never decreases, a mismatch
\* moves to (page_idx + 1, 0) and keeps the block, a write adds 1 to pos and
\* moves to (page_idx + 1, 0) when pos reaches 5, and every pass that was
\* entered ends, with all blocks consumed or the pages exhausted.
C21_PassStateMachine ==
    /\ [](InLoop => pos \in 0..(BLOCKS_PER_SHEET - 1))
    /\ [][PassStep]_vars
    /\ [](fill_pc = "done" => (bi = Len(blocks) \/ page_idx = Len(pages_slice)))
    /\ (fill_pc = "loop") ~> (fill_pc = "done")

\* C21 witness: a pass over two pages has ended with the pages exhausted
\* and blocks left over, after a mismatch closed the first page early and
\* the second page was filled
C21_Witness ==
    /\ fill_pc = "done"
    /\ Len(pages_slice) = 2
    /\ page_idx = 2
    /\ pos = 0
    /\ bi = 2
    /\ Len(blocks) = 3
    /\ wb[pages_slice[1]][0].kind = "block"
    /\ wb[pages_slice[1]][1].kind = "slash"
    /\ wb[pages_slice[2]][0].kind = "block"
    /\ wb[pages_slice[2]][1].kind = "slash"

----------------------------------------------------------------------------
(* The mode of a distribution and the quota of each day *)

\* the number of items that the slices before slice k have taken
RECURSIVE TakenBefore(_, _)
TakenBefore(res, k) == IF k <= 1 THEN 0 ELSE TakenBefore(res, k - 1) + Len(res[k - 1].slice)

\* C22: when some entry carries an explicit limit the distribution is by
\* quota: each day but the last with a positive limit L receives
\* min(L, remaining) items, a day but the last with an unset or zero limit
\* receives all remaining items, and the last day receives all remaining
\* items; even mode is for entry lists without any limit.
C22_QuotaWhenSomeLimit ==
    (dist_pc = "done" /\ \E k \in DOMAIN date_entries : date_entries[k].limit.some) =>
        \A k \in DOMAIN date_entries :
            LET remaining == Len(dist_items) - TakenBefore(dist_res, k)
                limit == date_entries[k].limit
                got == Len(dist_res[k].slice)
            IN /\ (k < Len(date_entries) /\ limit.some /\ limit.v > 0) => got = Min(limit.v, remaining)
               /\ (k < Len(date_entries) /\ (~limit.some \/ limit.v = 0)) => got = remaining
               /\ k = Len(date_entries) => got = remaining

----------------------------------------------------------------------------
(* The normal form of a parsed interval list *)

\* the text held a token that stands for values, so the list is not the
\* sentinel
RecognisedText ==
    /\ rule_pc = "parsed"
    /\ \E i \in DOMAIN rule_src.toks : rule_src.toks[i].k = "rng"
    /\ ~(Len(rule_src.toks) = 1 /\ rule_src.toks[1].k = "star")

\* C23: the interval list parsed from a non-empty recognised expression is
\* in normal form: every interval has lo <= hi, and each interval starts
\* more than one above the end of the one before it (sorted, not
\* overlapping, not adjacent), so '1-3 4-5' is the one interval (1, 5).
C23_NormalForm ==
    RecognisedText =>
        /\ rule.ranges # <<>>
        /\ \A k \in DOMAIN rule.ranges : rule.ranges[k][1] <= rule.ranges[k][2]
        /\ \A k \in 1..(Len(rule.ranges) - 1) :
              rule.ranges[k + 1][1] > rule.ranges[k][2] + 1

\* the list is sorted and its intervals share no value
C23_SortedDisjoint ==
    RecognisedText =>
        \A k \in 1..(Len(rule.ranges) - 1) : rule.ranges[k + 1][1] > rule.ranges[k][2]

----------------------------------------------------------------------------
(* Accept-all buckets *)

\* the rule of bucket b for the category and the name is '*', and b has
\* no keyword
AcceptAllBucket(cat, name, b) ==
    /\ b.kws = <<>>
    /\ \E r \in CatRule(cat, name, b) : r.enabled /\ r.ranges = <<>>

\* bucket bj has the priority of bucket bix, or a higher one
NotAfter(bj, bix) == IF later_priority THEN bj >= bix ELSE bj <= bix

\* the entity is in bucket bix or in a bucket of higher priority
TakenBy(cat, g, bix) ==
    \E bj \in 0..(Len(buckets) - 1) : NotAfter(bj, bix) /\ g \in Range(cat_byb[cat][bj])

\* C24: a bucket whose rule for a category is accept-all and that has no
\* keyword receives every entity of the category that no bucket of higher
\* priority took, in every category and under both strategies, also when
\* the name of a Bracing or GridFrame entity holds no number.
C24_AcceptAllTakes ==
    asg_pc = "done" =>
        \A cat \in DOMAIN cat_groups : \A k \in DOMAIN cat_groups[cat] :
            \A bix \in 0..(Len(buckets) - 1) :
                AcceptAllBucket(cat, cat_groups[cat][k].name, buckets[bix + 1])
                    => TakenBy(cat, cat_groups[cat][k], bix)

\* the same for the categories other than GridFrame
C24_SimpleCategories ==
    asg_pc = "done" =>
        \A cat \in DOMAIN cat_groups \ {"GridFrame"} : \A k \in DOMAIN cat_groups[cat] :
            \A bix \in 0..(Len(buckets) - 1) :
                AcceptAllBucket(cat, cat_groups[cat][k].name, buckets[bix + 1])
                    => TakenBy(cat, cat_groups[cat][k], bix)

----------------------------------------------------------------------------
(* Floor bands: segment_index and _segment_blocks_by_floor *)

\* buckets[seg] for every segment some block falls in; {0: []} when there
\* is no block
_segment_blocks_by_floor(blks, breaks) ==
    IF blks = <<>> THEN [seg \in {0} |-> <<>>]
    ELSE [seg \in {segment_index(floor_of(blks[k].name), breaks) : k \in DOMAIN blks} |->
             SelectSeq(blks, LAMBDA b : segment_index(floor_of(b.name), breaks) = seg)]

\* a call of _segment_blocks_by_floor
SegmentBlocksByFloor(blks, breaks) ==
    /\ seg_pc = "idle"
    /\ seg_pc' = "done"
    /\ seg_input' = blks
    /\ seg_breaks' = breaks
    /\ seg_buckets' = _segment_blocks_by_floor(blks, breaks)
    /\ UNCHANGED notSeg

MaxSegBlocks == 2

MaxBreaks == 2

\* 'GZ3 JF', 'GZ4 B2', 'GZ5 12F' and a roof written in Chinese
NameSeg_JF == <<"G", "Z", "3", " ", "J", "F">>

NameSeg_B2 == <<"G", "Z", "4", " ", "B", "2">>

NameSeg_12F == <<"G", "Z", "5", " ", "1", "2", "F">>

NameSeg_Roof == <<"G", "Z", "6", " ", "zh_wu", "zh_mian">>

\* names on numeric floors (3, 5, 12), underground, without a floor, in the
\* machine room and on the roof
SegNamePool ==
    {NameCS_A, NameCS_B, NameSeg_12F, NameSeg_B2, NameBR_A, NameSeg_JF, NameSeg_Roof, NameOT_B}

SegBlockInputs ==
    {[k \in DOMAIN ns |-> BlockOf(ns[k], NormalRow)] : ns \in SeqsUpTo(SegNamePool, MaxSegBlocks)}

\* sorted({int(x) for x in txt.split()}) for the floors the user types
SegBreakInputs ==
    {SortedKeys(S) : S \in {T \in SUBSET {3, 4, 5, 12, 20} : Cardinality(T) <= MaxBreaks}}

InitSegment ==
    /\ wb = <<>>
    /\ FillIdle
    /\ AllocIdle
    /\ DistIdle
    /\ RuleIdle
    /\ AssignIdle
    /\ RunIdle
    /\ BuildIdle
    /\ SegIdle
    /\ PlanIdle

NextSegment ==
    seg_pc = "idle" /\ \E blks \in SegBlockInputs, breaks \in SegBreakInputs :
        SegmentBlocksByFloor(blks, breaks)

SpecSegment == InitSegment /\ [][NextSegment]_vars

\* the floor rank of the k-th block of the call
SegFloor(k) == floor_of(seg_input[k].name)

\* the segment whose bucket holds the k-th block of the call
SegOf(k) == CHOOSE seg \in DOMAIN seg_buckets : seg_input[k] \in Range(seg_buckets[seg])

\* the breakpoints (0-based) that are not below the rank
BreaksFrom(fl) == {i \in 0..(Len(seg_breaks) - 1) : fl <= seg_breaks[i + 1]}

\* C25: with sorted breakpoints a numeric, underground or unrecognised
\* floor rank is in the segment of the first breakpoint that is not below
\* it, or in the post-last segment when there is none; the machine room is
\* in segment len(breaks) and the roof in len(breaks) + 1 (1 and 2 without
\* breakpoints); the segment never decreases when the rank increases, and
\* the machine room is in a strictly earlier segment than the roof.
C25_SegmentIndex ==
    seg_pc = "done" =>
        /\ \A k \in DOMAIN seg_input :
              /\ Cardinality({seg \in DOMAIN seg_buckets :
                                 seg_input[k] \in Range(seg_buckets[seg])}) = 1
              /\ SegFloor(k) < JF_VAL =>
                    (IF BreaksFrom(SegFloor(k)) # {}
                     THEN /\ SegOf(k) \in BreaksFrom(SegFloor(k))
                          /\ \A i \in BreaksFrom(SegFloor(k)) : SegOf(k) <= i
                     ELSE SegOf(k) = Len(seg_breaks))
              /\ SegFloor(k) = JF_VAL =>
                    SegOf(k) = (IF seg_breaks = <<>> THEN 1 ELSE Len(seg_breaks))
              /\ SegFloor(k) = WM_VAL =>
                    SegOf(k) = (IF seg_breaks = <<>> THEN 2 ELSE Len(seg_breaks) + 1)
        /\ \A j, k \in DOMAIN seg_input :
              /\ SegFloor(j) <= SegFloor(k) => SegOf(j) <= SegOf(k)
              /\ (SegFloor(j) = JF_VAL /\ SegFloor(k) = WM_VAL) => SegOf(j) < SegOf(k)

\* C25 witness: with two breakpoints, a block of the roof and a block of
\* the machine room (given in this order) are in segments 3 and 2
C25_Witness ==
    /\ seg_pc = "done"
    /\ Len(seg_breaks) = 2
    /\ Len(seg_input) = 2
    /\ SegFloor(1) = WM_VAL /\ SegFloor(2) = JF_VAL
    /\ SegOf(1) = 3 /\ SegOf(2) = 2

\* C26: the bands of the machine room and of the roof are dedicated: no
\* block on a numeric, underground or unrecognised floor is in the segment
\* of a machine-room block or of a roof block, with or without breakpoints.
C26_DedicatedBands ==
    seg_pc = "done" =>
        \A j, k \in DOMAIN seg_input :
            (SegFloor(j) < JF_VAL /\ SegFloor(k) >= JF_VAL) => SegOf(j) # SegOf(k)

\* the band of the roof is dedicated, and so are both bands without
\* breakpoints
C26_RoofDedicated ==
    seg_pc = "done" =>
        \A j, k \in DOMAIN seg_input :
            (SegFloor(j) < JF_VAL /\ (SegFloor(k) = WM_VAL \/ seg_breaks = <<>>) /\
             SegFloor(k) >= JF_VAL) => SegOf(j) # SegOf(k)

----------------------------------------------------------------------------
(* The missing amplified template *)

\* the workbook has no amplified template for the category of the call
NoMuTemplate == Title(alloc_cat, TRUE, 0) \notin DOMAIN wb

\* the bucket holds an amplified block
HasMu(bl) == \E k \in DOMAIN bl : _is_mu_block(bl[k])

\* the pages of n blocks
PagesFor(n) == CeilDiv(n, BLOCKS_PER_SHEET)

\* the amplified blocks of the bucket need a numbered page that is not in
\* the workbook; the numbers follow the pages counted so far and the
\* normal pages of the bucket
MustClone(bl) ==
    LET m == Cardinality({k \in DOMAIN bl : _is_mu_block(bl[k])})
    IN \E k \in 1..PagesFor(m) :
          Title(alloc_cat, TRUE, total_all_pages + PagesFor(Len(bl) - m) + k) \notin DOMAIN wb

\* the iteration over one bucket
BucketStep == alloc_pc = "loop" /\ Len(blocks_by_bucket') = Len(blocks_by_bucket) + 1

\* the bucket the iteration reads
BucketRead == blocks_by_bucket'[Len(blocks_by_bucket')]

\* C27: ensure_pages_slices_for_cat_muaware raises when a bucket holds an
\* amplified block whose page must be cloned and the workbook has no
\* amplified template for the category; a bucket without an amplified
\* block never raises for the missing template, and whenever the call has
\* raised, the bucket read last holds an amplified block and the template
\* is missing.
C27_MissingMuTemplate ==
    /\ [][BucketStep =>
            /\ (HasMu(BucketRead) /\ NoMuTemplate /\ MustClone(BucketRead))
                  => alloc_pc' = "raised"
            /\ ~HasMu(BucketRead) => alloc_pc' # "raised"]_vars
    /\ [](alloc_pc = "raised" =>
            /\ HasMu(blocks_by_bucket[Len(blocks_by_bucket)])
            /\ NoMuTemplate)

\* C27 witness: without the template the first bucket got the numbered
\* amplified page that was in the workbook, and the call raised on the
\* amplified block of the second bucket
C27_Witness ==
    /\ alloc_pc = "raised"
    /\ NoMuTemplate
    /\ Len(blocks_by_bucket) = 2
    /\ Len(pages_slices) = 1
    /\ Title(alloc_cat, TRUE, 2) \in Range(pages_slices[1])
    /\ HasMu(blocks_by_bucket[2])

----------------------------------------------------------------------------
(* Mode 4 through export_mode4_noninteractive: the plan of mode4_run *)

\* a floor label: "B<n>", "<n>F", the machine room, the roof or "F?"; "*"
\* is the key of a plan for every floor
Label(kind, n) == [kind |-> kind, n |-> n]

StarLabel == Label("*", 0)

\* the matches of (?i)B\s*(\d+): positions of the letter
UndergroundAt(s) ==
    {i \in DOMAIN s : LowerCh(s[i]) = "b" /\ At(s, SkipSpaces(s, i + 1)) \in Digits}

\* the first run of digits gives the label of a numeric floor
_floor_label_from_name(name) ==
    LET s == [k \in DOMAIN name |-> IF name[k] \in FloorDashes THEN "-" ELSE name[k]]
        sl == LowerText(s)
        digits == {i \in DOMAIN s : s[i] \in Digits}
    IN IF ContainsSeq(sl, <<"zh_ji", "zh_fang">>) \/ ContainsWord(sl, <<"j", "f">>)
       THEN Label("zh_jifangceng", 0)
       ELSE IF \/ ContainsSeq(s, <<"zh_wu", "zh_mian">>)
               \/ ContainsSeq(s, <<"zh_ding", "zh_ceng">>)
               \/ ContainsWord(sl, <<"w", "m">>)
               \/ ContainsWord(sl, <<"d", "c">>)
       THEN Label("zh_wumian", 0)
       ELSE IF UndergroundAt(s) # {}
       THEN Label("B", IntAt(s, SkipSpaces(s, MinOf(UndergroundAt(s)) + 1)))
       ELSE IF digits # {} THEN Label("F", IntAt(s, MinOf(digits)))
       ELSE Label("F?", 0)

\* the first occurrences of the elements of a sequence, in order
RECURSIVE Distinct(_)
Distinct(s) ==
    IF s = <<>> THEN <<>>
    ELSE <<Head(s)>> \o Distinct(SelectSeq(Tail(s), LAMBDA x : x # Head(s)))

\* the keys (cat, fl) of cf_groups in insertion order
CfKeys(gr, cats) ==
    Distinct(Flatten([c \in DOMAIN cats |->
                        [k \in DOMAIN gr[cats[c]] |->
                            <<cats[c], _floor_label_from_name(gr[cats[c]][k].name)>>]]))

\* cf_groups[(cat, fl)]
CfItems(gr, key) ==
    SelectSeq(gr[key[1]], LAMBDA g : _floor_label_from_name(g.name) = key[2])

\* the first number of the name, 10 ** 9 without one
FirstNumber(name) ==
    LET digits == {i \in DOMAIN name : name[i] \in Digits}
    IN IF digits = {} THEN 1000000000 ELSE IntAt(name, MinOf(digits))

\* items.sort(key = (first number, name)): a stable sort by the number;
\* the names of one key that share the number are equal
RECURSIVE SortItems(_)
SortItems(items) ==
    IF items = <<>> THEN <<>>
    ELSE LET m == MinOf({FirstNumber(items[k].name) : k \in DOMAIN items})
         IN SelectSeq(items, LAMBDA g : FirstNumber(g.name) = m)
            \o SortItems(SelectSeq(items, LAMBDA g : FirstNumber(g.name) # m))

\* plan_for_cat.get(fl) or plan_for_cat.get("*"); <<>> when there is none
PlanFor(plan_dict, cat, fl) ==
    LET pfc == IF cat \in DOMAIN plan_dict THEN plan_dict[cat] ELSE <<>>
        own == IF fl \in DOMAIN pfc THEN pfc[fl] ELSE <<>>
    IN IF own # <<>> THEN own
       ELSE IF StarLabel \in DOMAIN pfc THEN pfc[StarLabel] ELSE <<>>

\* the state of the plan loop: the dates of buckets in creation order,
\* blocks_by_cat_bucket and leftover_by_cat
PlanStart ==
    [dates |-> <<>>,
     bbcb |-> [cat \in Range(CATEGORY_ORDER) |-> <<>>],
     left |-> [cat \in Range(CATEGORY_ORDER) |-> <<>>]]

\* blocks_by_cat_bucket[cat][idx].extend(blks)
ExtendBucket(bbcb, cat, idx, blks) ==
    [bbcb EXCEPT ![cat] =
        [i \in (DOMAIN bbcb[cat]) \cup {idx} |->
            IF i = idx
            THEN (IF idx \in DOMAIN bbcb[cat] THEN bbcb[cat][idx] ELSE <<>>) \o blks
            ELSE bbcb[cat][i]]]

\* one (date, slice_items) of a distribution: an empty slice is skipped, a
\* new date opens a bucket, the blocks of the slice go to the bucket of
\* the date
AddSlice(acc, cat, date, slice_items) ==
    IF slice_items = <<>> THEN acc
    ELSE LET dates == IF date \in Range(acc.dates) THEN acc.dates ELSE Append(acc.dates, date)
             idx == (CHOOSE k \in DOMAIN dates : dates[k] = date) - 1
         IN [acc EXCEPT !.dates = dates,
                        !.bbcb = ExtendBucket(acc.bbcb, cat, idx,
                                              expand_blocks(TokenNamed(slice_items),
                                                            PER_LINE_PER_BLOCK))]

\* for date, slice_items in _distribute_by_dates(items, plan): ...
RECURSIVE AddSlices(_, _, _, _)
AddSlices(acc, cat, res, k) ==
    IF k > Len(res) THEN acc
    ELSE AddSlices(AddSlice(acc, cat, res[k].date, res[k].slice), cat, res, k + 1)

\* for (cat, fl), items in cf_groups.items(): ...
RECURSIVE PlanLoop(_, _, _, _)
PlanLoop(keys, gr, plan_dict, acc) ==
    IF keys = <<>> THEN acc
    ELSE LET cat == Head(keys)[1]
             items == SortItems(CfItems(gr, Head(keys)))
             plan == PlanFor(plan_dict, cat, Head(keys)[2])
         IN PlanLoop(Tail(keys), gr, plan_dict,
                     IF plan = <<>>
                     THEN [acc EXCEPT !.left[cat] = @ \o items]
                     ELSE AddSlices(acc, cat, _distribute_by_dates(items, plan), 1))

\* left_total
LeftTotal(left) == SumFirst([k \in DOMAIN CATEGORY_ORDER |-> Len(left[CATEGORY_ORDER[k]])],
                            Len(CATEGORY_ORDER))

\* fallback "default": the leftover groups of every category are spread
\* over default_entries
RECURSIVE FallbackDefault(_, _, _)
FallbackDefault(acc, cats, default_entries) ==
    IF cats = <<>> THEN acc
    ELSE FallbackDefault(
            IF acc.left[Head(cats)] = <<>> THEN acc
            ELSE [AddSlices(acc, Head(cats),
                            _distribute_by_dates(acc.left[Head(cats)], default_entries), 1)
                    EXCEPT !.left[Head(cats)] = <<>>],
            Tail(cats), default_entries)

\* fallback "append_last": the blocks of the leftover groups go to the
\* bucket created last
RECURSIVE FallbackAppendLast(_, _)
FallbackAppendLast(acc, cats) ==
    IF cats = <<>> THEN acc
    ELSE FallbackAppendLast(
            IF acc.left[Head(cats)] = <<>> THEN acc
            ELSE [acc EXCEPT !.bbcb = ExtendBucket(acc.bbcb, Head(cats), Len(acc.dates) - 1,
                                                   expand_blocks(TokenNamed(acc.left[Head(cats)]),
                                                                 PER_LINE_PER_BLOCK)),
                             !.left[Head(cats)] = <<>>],
            Tail(cats))

\* RuntimeError(msg): the three messages of the fallback are literals and
\* name no entity
RuntimeError(msg) == [type |-> "RuntimeError", msg |-> msg, names |-> {}]

\* ValueError of set_support_strategy / set_net_strategy
ValueError(msg) == [type |-> "ValueError", msg |-> msg, names |-> {}]

\* the fallback of mode4_run for the injected values "default",
\* "append_last" and "error": the exception it raises, or NoError and the
\* state it leaves
Mode4Fallback(acc, fallback, default_entries) ==
    IF LeftTotal(acc.left) = 0 THEN [err |-> NoError, acc |-> acc]
    ELSE IF fallback = "default"
    THEN (IF default_entries = <<>>
          THEN [err |-> RuntimeError("fallback=default without default_entries"), acc |-> acc]
          ELSE [err |-> NoError,
                acc |-> FallbackDefault(acc, CATEGORY_ORDER, default_entries)])
    ELSE IF fallback = "append_last"
    THEN (IF acc.dates = <<>>
          THEN [err |-> RuntimeError("append_last needs a date bucket"), acc |-> acc]
          ELSE [err |-> NoError, acc |-> FallbackAppendLast(acc, CATEGORY_ORDER)])
    ELSE [err |-> RuntimeError("fallback=error"), acc |-> acc]

\* order = sorted(range(len(buckets)), key = date): old indices (0-based)
RECURSIVE OrderByDate(_, _)
OrderByDate(dates, todo) ==
    IF todo = {} THEN <<>>
    ELSE LET i == CHOOSE i \in todo : \A j \in todo : dates[i + 1] <= dates[j + 1]
         IN <<i>> \o OrderByDate(dates, todo \ {i})

\* blocks_by_cat_bucket[cat] = {new_i: blocks_by_cat_bucket[cat].get(old_i, [])}
SortBuckets(acc) ==
    LET order == OrderByDate(acc.dates, 0..(Len(acc.dates) - 1))
    IN [cat \in Range(CATEGORY_ORDER) |->
           [new_i \in 0..(Len(order) - 1) |->
               IF order[new_i + 1] \in DOMAIN acc.bbcb[cat]
               THEN acc.bbcb[cat][order[new_i + 1]] ELSE <<>>]]

\* mode4_run injects a strategy only when it is "number" or "floor"
InjectedStrategy(v) == IF v \in {"number", "floor"} THEN v ELSE NoStrategy

\* export_mode4_noninteractive up to the end of the plan of mode4_run: the
\* two strategies are set (either call may raise), run_mode("4") resets
\* them, mode4_run injects them, looks for the plan of every (category,
\* floor) and applies the fallback; an exception of mode4_run passes the
\* finally clause, which sets the strategies back
export_mode4_noninteractive(gs, plan_dict, support_strategy, net_strategy, fallback, default_entries) ==
    /\ run_pc = "idle"
    /\ run_entry' = "export_mode4_noninteractive"
    /\ grouped' = prepare_from_word(gs)
    /\ prev_support' = support_bucket_strategy
    /\ prev_net' = net_bucket_strategy
    /\ \E sup_val \in {LowerStrategy(StrategyOrNumber(support_strategy))},
          net_val \in {LowerStrategy(StrategyOrNumber(net_strategy))} :
       IF set_strategy_raises(sup_val)
       THEN /\ run_pc' = "raised"
            /\ run_error' = ValueError("support_strategy")
            /\ UNCHANGED <<support_bucket_strategy, net_bucket_strategy, leftover_by_cat,
                           blocks_by_cat_bucket>>
       ELSE IF set_strategy_raises(net_val)
       THEN /\ run_pc' = "raised"
            /\ run_error' = ValueError("net_strategy")
            /\ support_bucket_strategy' = set_strategy_value(sup_val)
            /\ UNCHANGED <<net_bucket_strategy, leftover_by_cat, blocks_by_cat_bucket>>
       ELSE \E gr \in {prepare_from_word(gs)} :
            \E acc \in {PlanLoop(CfKeys(gr, CategoriesPresent(gr)), gr, plan_dict, PlanStart)} :
            \E fb \in {Mode4Fallback(acc, fallback, default_entries)} :
               IF fb.err # NoError
               THEN /\ run_pc' = "raised"
                    /\ run_error' = fb.err
                    /\ leftover_by_cat' = acc.left
                    /\ blocks_by_cat_bucket' = acc.bbcb
                    /\ support_bucket_strategy' = set_strategy_value(support_bucket_strategy)
                    /\ net_bucket_strategy' = set_strategy_value(net_bucket_strategy)
               ELSE /\ run_pc' = "planned"
                    /\ run_error' = NoError
                    /\ leftover_by_cat' = fb.acc.left
                    /\ blocks_by_cat_bucket' = SortBuckets(fb.acc)
                    /\ support_bucket_strategy' = InjectedStrategy(sup_val)
                    /\ net_bucket_strategy' = InjectedStrategy(net_val)
    /\ UNCHANGED <<provider, pages_slices_by_cat, blocks_slices_by_cat, run_i, target>>
    /\ UNCHANGED <<asg_pc, cat_groups, buckets, later_priority, cat_byb, remain_by_cat>>
    /\ UNCHANGED <<wb, fillVars, allocVars, distVars, ruleVars, buildVars, segVars>>

\* the end of export_mode4_noninteractive: the bare mu templates that were
\* not used are removed, the workbook is saved, and the finally clause
\* sets the strategies back
Export4Return(w) ==
    /\ run_pc' = "done"
    /\ wb' = cleanup_unused_mu_templates(w, target')
    /\ support_bucket_strategy' = set_strategy_value(prev_support)
    /\ net_bucket_strategy' = set_strategy_value(prev_net)

\* mode4_run after the plan: the pages of every category in use and the
\* order of the sheets
Export4Pages ==
    /\ run_pc = "planned"
    /\ \E res \in {Mode4Slices(wb, CatsInUse(blocks_by_cat_bucket), blocks_by_cat_bucket, <<>>)} :
          /\ pages_slices_by_cat' = res.slices
          /\ target' = TargetOrder(CatsInUse(blocks_by_cat_bucket), res.slices, 0,
                                   Cardinality(DOMAIN blocks_by_cat_bucket["ColumnSteel"]))
          /\ IF CatsInUse(blocks_by_cat_bucket) = <<>>
             THEN Export4Return(res.wb)
             ELSE /\ run_pc' = "fill"
                  /\ wb' = res.wb
                  /\ UNCHANGED <<support_bucket_strategy, net_bucket_strategy>>
    /\ run_i' = 0
    /\ UNCHANGED <<run_entry, provider, grouped, prev_support, prev_net, blocks_by_cat_bucket,
                   blocks_slices_by_cat>>
    /\ UNCHANGED <<asg_pc, cat_groups, buckets, later_priority, cat_byb, remain_by_cat>>
    /\ UNCHANGED <<fillVars, allocVars, distVars, ruleVars, buildVars, segVars, planVars>>

\* fill_blocks_to_pages(wb, pages, blocks, prog) of mode4_run
Export4FillPair ==
    /\ run_pc = "fill"
    /\ run_entry = "export_mode4_noninteractive"
    /\ FillCall(pages_slices_by_cat[Mode4Cat][Mode4Bucket + 1],
                blocks_by_cat_bucket[Mode4Cat][Mode4Bucket])

\* after the write pass of a (bucket, category) pair: the next pair, or
\* the return of target and the end of the export
Export4PairDone ==
    /\ run_pc = "fill"
    /\ run_entry = "export_mode4_noninteractive"
    /\ fill_pc = "done"
    /\ fill_pc' = "idle"
    /\ run_i' = run_i + 1
    /\ target' = target
    /\ IF run_i + 1 < Len(CatsInUse(blocks_by_cat_bucket))
                         * Cardinality(DOMAIN blocks_by_cat_bucket["ColumnSteel"])
       THEN UNCHANGED <<wb, run_pc, support_bucket_strategy, net_bucket_strategy>>
       ELSE Export4Return(wb)
    /\ UNCHANGED <<pages_slice, blocks, page_idx, pos, bi, warned, written>>
    /\ UNCHANGED <<run_entry, provider, grouped, prev_support, prev_net, blocks_by_cat_bucket,
                   pages_slices_by_cat, blocks_slices_by_cat>>
    /\ UNCHANGED <<asg_pc, cat_groups, buckets, later_priority, cat_byb, remain_by_cat>>
    /\ UNCHANGED <<allocVars, distVars, ruleVars, buildVars, segVars, planVars>>

----------------------------------------------------------------------------
(* Inputs of export_mode4_noninteractive *)

\* plans by category and floor label: only floor 1 of the columns has
\* dates (floor 2 has an empty list); every floor of the columns has two
\* dates out of order and every floor of the bracing one date; floor 1 and
\* floor 2 of the columns have a limit and a date each; only the bracing
\* has a plan
Mode4PlanInputs ==
    {[cat \in {"ColumnSteel"} |->
         [fl \in {Label("F", 1), Label("F", 2)} |->
             IF fl.n = 1 THEN <<Entry(2, None)>> ELSE <<>>]],
     [cat \in {"ColumnSteel", "Bracing"} |->
         [fl \in {StarLabel} |->
             IF cat = "ColumnSteel" THEN <<Entry(2, None), Entry(1, None)>>
             ELSE <<Entry(1, None)>>]],
     [cat \in {"ColumnSteel"} |->
         [fl \in {Label("F", 1), Label("F", 2)} |->
             IF fl.n = 1 THEN <<Entry(1, Some(1))>> ELSE <<Entry(2, None)>>]],
     [cat \in {"Bracing"} |-> [fl \in {StarLabel} |-> <<Entry(1, None)>>]]}

\* fallback and default_entries as the caller gives them
Mode4FallbackInputs ==
    {<<"default", <<>>>>, <<"default", <<Entry(3, None)>>>>,
     <<"append_last", <<>>>>, <<"error", <<>>>>}

InitMode4Plan ==
    /\ wb = RunWorkbook
    /\ FillIdle
    /\ AllocIdle
    /\ DistIdle
    /\ RuleIdle
    /\ AssignIdle
    /\ RunIdle
    /\ BuildIdle
    /\ SegIdle
    /\ PlanIdle

NextMode4Plan ==
    \/ (run_pc = "idle" /\ run_entry = "none" /\ set_support_strategy("floor"))
    \/ (run_pc = "idle" /\ run_entry = "none" /\ set_net_strategy("number"))
    \/ (run_pc = "idle" /\
        \E gs \in RunDocumentInputs, plan \in Mode4PlanInputs, st \in RunStrategyInputs,
           fb \in Mode4FallbackInputs :
            export_mode4_noninteractive(gs, plan, st[1], st[2], fb[1], fb[2]))
    \/ Export4Pages
    \/ Export4FillPair
    \/ (run_pc = "fill" /\ FillMismatch)
    \/ (run_pc = "fill" /\ FillWrite)
    \/ (run_pc = "fill" /\ FillExit)
    \/ Export4PairDone

SpecMode4Plan == InitMode4Plan /\ [][NextMode4Plan]_vars

\* the entities of leftover_by_cat
LeftoverNames ==
    UNION {{leftover_by_cat[cat][k].name : k \in DOMAIN leftover_by_cat[cat]} :
           cat \in DOMAIN leftover_by_cat}

\* the entities of the document for which the plan has no dates
Planless(plan_dict) ==
    UNION {{grouped[cat][k].name :
              k \in {k \in DOMAIN grouped[cat] :
                       PlanFor(plan_dict, cat, _floor_label_from_name(grouped[cat][k].name)) = <<>>}} :
           cat \in DOMAIN grouped}

\* mode4_run raised for fallback "error"
RaisedForLeftover == run_pc = "raised" /\ run_error = RuntimeError("fallback=error")

\* C28 (first part): when mode 4 raises for fallback "error", every entity has
\* been looked up in the plan (leftover_by_cat holds the entities without
\* dates of some plan of the inputs, at least one) and no page has been
\* created or written
C28_RaisedAfterPlanBeforePages ==
    RaisedForLeftover =>
        /\ LeftoverNames # {}
        /\ \E plan \in Mode4PlanInputs : LeftoverNames = Planless(plan)
        /\ wb = RunWorkbook
        /\ written = {}
        /\ target = <<>>

\* C28: when mode 4 raises for fallback "error", the error is raised after
\* the plan and before any page is created or written, and it carries the
\* full set of the entities without a plan
C28_ErrorCarriesUnassigned ==
    RaisedForLeftover =>
        /\ LeftoverNames # {}
        /\ wb = RunWorkbook
        /\ target = <<>>
        /\ LeftoverNames \subseteq run_error.names

\* an export of mode 1 or mode 4 has returned or raised
ExportEnded ==
    /\ run_entry \in {"export_mode1_noninteractive", "export_mode4_noninteractive"}
    /\ run_pc \in {"done", "raised"}

\* C29 (inside the try): when an export of mode 4 returns, or raises from
\* run_mode, the two strategy flags have the values they had before the call
C29_RestoredByFinally ==
    (ExportEnded /\ run_error.type # "ValueError" /\ run_entry = "export_mode4_noninteractive") =>
        /\ support_bucket_strategy = prev_support
        /\ net_bucket_strategy = prev_net

\* C29: when export_mode1_noninteractive or export_mode4_noninteractive
\* returns or raises, also for an invalid strategy argument, the two
\* strategy flags have the values they had before the call
C29_StrategyFlagsRestored ==
    ExportEnded =>
        /\ support_bucket_strategy = prev_support
        /\ net_bucket_strategy = prev_net

\* the final clean-up of an export path has run
CleanedUp ==
    \/ run_pc = "exported"
    \/ run_pc = "done" /\ run_entry \in {"run_mode1_with_provider", "export_mode1_noninteractive",
                                         "export_mode4_noninteractive"}

\* C30 (paths that pass the used pages): after the clean-up of mode 1 and
\* of the exports of mode 1 and mode 4, every page run_mode returned is in
\* the workbook
C30_KeptWhenUsedPagesPassed ==
    (CleanedUp /\ run_pc = "done") => (Range(target) \subseteq DOMAIN wb /\ DOMAIN wb # {})

\* C30: after the final clean-up of every export path, every page run_mode
\* returned as used is still in the workbook and the workbook has a sheet,
\* also when a category needed more than one page
C30_UsedPagesKept ==
    CleanedUp => (Range(target) \subseteq DOMAIN wb /\ DOMAIN wb # {})

====
